---- MODULE Spec2Model ----
(***************************************************************************)
(* State-replication layer of the multiplayer world: the authoritative     *)
(* server (src/src/bin/server.rs), the clients that mirror it              *)
(* (src/src/bin/client.rs) and the channels between them.                  *)
(*                                                                         *)
(* Lengths are fixed-point thousandths (1000 = 1.0).  A Bevy system is one *)
(* action: it reads the world as it was when the system started, queues    *)
(* its Commands, and the queue is applied when the system has run.         *)
(***************************************************************************)
EXTENDS Integers, Sequences, FiniteSets, TLC

\* ---------------------------------------------------------------- bounds
\* Number of logical player identities the transport may hand out.
NumClients == 2
\* Number of entities the server world may allocate (players and projectiles).
MaxEntities == 3
\* ServerEvents the transport may report within one server tick.
MaxEvents == 2
\* BasicAttack commands of one client the server may receive within one tick.
MaxCommands == 1
\* Input messages of one client the server may receive within one tick.
MaxInput == 2
\* Snapshots that may wait in a client's inbound queue.
MaxSnapQueue == 1
\* Snapshots that may wait there when the channel reorders them.
MaxReordered == 2
\* Update frames a projectile's lifetime timer lasts.
ProjectileFrames == 1
\* Messages an arbitrary peer may push at a client (ClientSpec only).
MaxInject == 3
\* Milliseconds of frame time followed (TimerSpec only).
MaxClock == 500
\* Milliseconds of a client's run followed, and of one in which reports are
\* watched.
MaxElapsed == 1200
ShortRun == 200
\* Input messages of one client that may be on their way to the server.
MaxInFlight == 4

Clients == 1..NumClients
Entities == 1..MaxEntities
\* Option::None for entity handles and player ids
None == 0

\* ------------------------------------------------------------ value types
\* Transform::from_xyz(0.0, 2.0, 0.0)
SpawnTranslation == <<0, 2000, 0>>
\* Quat::IDENTITY
IdentityRotation == <<0, 0, 0, 1000>>
\* Positions a client may report and cast points it may aim at.
ReportedPositions == {<<3000, 2000, 0>>}
ReportedRotations == {<<0, 1000, 0, 0>>}
CastPoints == {<<5000, 0, 5000>>}

\* the transforms a snapshot of an arbitrary peer may carry
AnyTranslations == {SpawnTranslation} \cup ReportedPositions
AnyRotations == {IdentityRotation} \cup ReportedRotations

RECURSIVE SqrtBetween(_, _, _)
SqrtBetween(n, lo, hi) ==
    IF lo >= hi THEN lo
    ELSE LET mid == (lo + hi + 1) \div 2
         IN IF mid * mid <= n THEN SqrtBetween(n, mid, hi)
            ELSE SqrtBetween(n, lo, mid - 1)

\* floor of the square root
Isqrt(n) == SqrtBetween(n, 0, 46340)

VecSub(a, b) == <<a[1] - b[1], a[2] - b[2], a[3] - b[3]>>
VecAdd(a, b) == <<a[1] + b[1], a[2] + b[2], a[3] + b[3]>>
\* v * (num / den)
VecScale(v, num, den) == <<(v[1] * num) \div den, (v[2] * num) \div den, (v[3] * num) \div den>>
VecLength(v) == Isqrt(v[1] * v[1] + v[2] * v[2] + v[3] * v[3])

\* Vec3::normalize_or_zero
NormalizeOrZero(v) ==
    LET len == VecLength(v)
    IN IF len > 0 THEN VecScale(v, 1000, len) ELSE <<0, 0, 0>>

\* Vec3::is_normalized, with the tolerance of the fixed-point unit vectors
IsNormalized(v) ==
    LET len == VecLength(v) IN len >= 990 /\ len <= 1010

\* ---------------------------------------------------------------- state
VARIABLES
    connState,     \* per client id: "Connecting", "Connected", "Disconnected"
    lobby,         \* ServerLobby.players: client id -> player entity or None
    world,         \* the server world: live entity -> its components
    nextEntity,    \* the next entity handle the server world allocates
    sent,          \* per client: every ServerChannel::ServerMessages message
                   \*   put on its connection, in order, entry = message + how
    relRead,       \* per client: how many of sent[c] the client has applied
    snapq,         \* per client: snapshots received, not yet applied
    clobby,        \* per client: ClientLobby.players: id -> PlayerInfo or NoInfo
    mapping,       \* per client: NetworkMapping: server entity -> local or None
    cworld,        \* per client: live local mirror entity -> its components
    nextLocal,     \* per client: next local entity handle
    panicked,      \* per client: the client process has aborted
    joinInfo,      \* history, per client: what the server saw when it joined
    leaveInfo,     \* history, per client: what the server saw when it left
    ignored,       \* history, per client: a snapshot entry naming its avatar
                   \*   with another transform than the avatar's was skipped
    overwrote,     \* history, per client: one run applied two snapshots that
                   \*   gave a mirror it tracks two different transforms
    injected,      \* number of messages pushed by the arbitrary peer
    syncTimer,     \* NetworkSyncTimer: milliseconds elapsed in this period
    clock,         \* history: milliseconds of frame time since start-up
    syncLog,       \* history: how often the timer has fired, how many
                   \*   batches went onto the snapshot channel, the last of
                   \*   them and the connections it was sent to
    timeElapsed,   \* per client: Time::elapsed of its process, milliseconds
    playerInput,   \* per client: the PlayerInput resource
    lastSent,      \* per client: the Local<f32> of move_player (rotation),
                   \*   move_player_body (position), handle_interaction
                   \*   (interact) and equip_item_system (equip), milliseconds
    equipment,     \* per client: PlayerEquipment.equipped_item (the view
                   \*   model entity or None) and the Visibility of every
                   \*   Equippable of its world ("Absent": not spawned yet)
    inFlight,      \* per client: messages sent on ClientChannel::Input that
                   \*   the server has not received yet
    sentAt         \* history, per client and kind of ClientInput: when the
                   \*   last message of that kind was sent (at) and when the
                   \*   one before it (prev), -1 if none was

vars == <<connState, lobby, world, nextEntity, sent, relRead, snapq, clobby,
          mapping, cworld, nextLocal, panicked, joinInfo, leaveInfo, ignored,
          overwrote, injected, syncTimer, clock, syncLog, timeElapsed, playerInput, lastSent,
          equipment, inFlight, sentAt>>

serverVars == <<lobby, world, nextEntity, joinInfo, leaveInfo>>
clientVars == <<clobby, mapping, cworld, nextLocal, panicked, relRead, ignored,
                overwrote>>
timerVars == <<syncTimer, clock, syncLog>>
controlVars == <<timeElapsed, playerInput, lastSent, equipment, inFlight, sentAt>>

\* RenetServer::clients_id: the connections the transport holds
Connections == {c \in Clients : connState[c] = "Connected"}

\* ---------------------------------------------------------- wire messages
PlayerCreate(id, entity, translation) ==
    [type |-> "PlayerCreate", id |-> id, entity |-> entity, translation |-> translation]
PlayerRemove(id) == [type |-> "PlayerRemove", id |-> id]
SpawnProjectile(entity, translation) ==
    [type |-> "SpawnProjectile", entity |-> entity, translation |-> translation]
DespawnProjectile(entity) == [type |-> "DespawnProjectile", entity |-> entity]
\* EquipItem { player_id, item_entity, item_name, item_model }: every item
\* has the same name and model here
EquipItem(player_id, item_entity) ==
    [type |-> "EquipItem", player_id |-> player_id, item_entity |-> item_entity]
UnequipItem(player_id) == [type |-> "UnequipItem", player_id |-> player_id]

\* bytes that are no ServerMessages value
Undecodable == [type |-> "Undecodable"]

\* NetworkedEntities: three parallel arrays
NetworkedEntities(entities, translations, rotations) ==
    [entities |-> entities, translations |-> translations, rotations |-> rotations]

\* PlayerInput: the four movement keys and the interact key
PlayerInput(up, down, left, right, interact) ==
    [up |-> up, down |-> down, left |-> left, right |-> right, interact |-> interact]
\* PlayerInput::default()
DefaultInput == PlayerInput(FALSE, FALSE, FALSE, FALSE, FALSE)
MovementInputs == {PlayerInput(TRUE, FALSE, FALSE, FALSE, FALSE)}

\* ClientInput::EquipItem { item_entity } and ClientInput::UnequipItem
EquipItemInput(item_entity) == [type |-> "EquipItemInput", item_entity |-> item_entity]
UnequipItemInput == [type |-> "UnequipItemInput"]

\* the Equippable entities of a client's world: the pickaxe spawned at
\* start-up and the ore chunk that mining spawns
Items == {"Pickaxe", "OreChunk"}
StartItems == [i \in Items |-> IF i = "Pickaxe" THEN "Inherited" ELSE "Absent"]

\* ClientInput
InputKinds == {"Movement", "Rotation", "Position", "Interact"}
Movement(input) == [type |-> "Movement", input |-> input]
Rotation(rotation) == [type |-> "Rotation", rotation |-> rotation]
Position(position) == [type |-> "Position", position |-> position]
Interact == [type |-> "Interact"]
ClientInputs ==
    {Movement(i) : i \in MovementInputs} \cup {Rotation(r) : r \in ReportedRotations}
        \cup {Position(p) : p \in ReportedPositions} \cup {Interact}

\* ---------------------------------------------------------- server world
PlayerComponents(id, translation) ==
    [kind |-> "player", id |-> id, translation |-> translation,
     rotation |-> IdentityRotation, duration |-> 0, velocity |-> <<0, 0, 0>>,
     input |-> DefaultInput]

\* spawn_fireball: a direction that is not a unit vector is replaced by X
FireballComponents(translation, direction) ==
    LET dir == IF IsNormalized(direction) THEN direction ELSE <<1000, 0, 0>>
    IN [kind |-> "projectile", id |-> None, translation |-> translation,
        rotation |-> IdentityRotation, duration |-> ProjectileFrames,
        velocity |-> VecScale(dir, 10, 1), input |-> DefaultInput]

RECURSIVE SetToSeq(_)
\* the elements of a set of numbers, ascending: the order queries iterate in
SetToSeq(S) ==
    IF S = {} THEN <<>>
    ELSE LET m == CHOOSE x \in S : \A y \in S : x <= y
         IN <<m>> \o SetToSeq(S \ {m})

\* Query<(Entity, &Player, &Transform)>
PlayersOf(w) == {e \in DOMAIN w : w[e].kind = "player"}
ProjectilesOf(w) == {e \in DOMAIN w : w[e].kind = "projectile"}

\* Commands: applied in order once the system has run
CmdSpawn(e, comps) == [op |-> "spawn", entity |-> e, comps |-> comps]
CmdDespawn(e) == [op |-> "despawn", entity |-> e]
CmdInsertTransform(e, translation, rotation) ==
    [op |-> "transform", entity |-> e, translation |-> translation, rotation |-> rotation]
CmdInsertInput(e, input) == [op |-> "input", entity |-> e, input |-> input]
CmdInsertVisibility(e, hidden) == [op |-> "visibility", entity |-> e, hidden |-> hidden]

ApplyCommand(w, cmd) ==
    CASE cmd.op = "spawn" ->
            [e \in DOMAIN w \cup {cmd.entity} |->
                IF e = cmd.entity THEN cmd.comps ELSE w[e]]
      [] cmd.op = "despawn" ->
            [e \in DOMAIN w \ {cmd.entity} |-> w[e]]
      [] cmd.op = "transform" ->
            IF cmd.entity \in DOMAIN w
            THEN [w EXCEPT ![cmd.entity].translation = cmd.translation,
                           ![cmd.entity].rotation = cmd.rotation]
            ELSE w
      [] cmd.op = "input" ->
            IF cmd.entity \in DOMAIN w
            THEN [w EXCEPT ![cmd.entity].input = cmd.input]
            ELSE w
      [] cmd.op = "visibility" ->
            IF cmd.entity \in DOMAIN w
            THEN [w EXCEPT ![cmd.entity] =
                    [f \in DOMAIN @ \cup {"hidden"} |->
                        IF f = "hidden" THEN cmd.hidden ELSE @[f]]]
            ELSE w

RECURSIVE ApplyCommands(_, _)
ApplyCommands(w, cmds) ==
    IF cmds = <<>> THEN w
    ELSE ApplyCommands(ApplyCommand(w, Head(cmds)), Tail(cmds))

\* ------------------------------------------------ server_update_system
\* RenetServer::broadcast_message on ServerChannel::ServerMessages
Broadcast(s, conns, msg) ==
    [c \in Clients |->
        IF c \in conns THEN Append(s[c], [msg |-> msg, unicast |-> FALSE]) ELSE s[c]]

\* RenetServer::send_message: an unknown connection is logged and skipped
SendTo(s, conns, c, msg) ==
    IF c \in conns THEN [s EXCEPT ![c] = Append(@, [msg |-> msg, unicast |-> TRUE])]
    ELSE s

RECURSIVE SendExistingPlayersTwice(_, _, _, _, _)
\* Faulty variant of SendExistingPlayers: two PlayerCreate per entity.
SendExistingPlayersTwice(s, conns, c, w, es) ==
    IF es = <<>> THEN s
    ELSE LET e == Head(es)
             m == PlayerCreate(w[e].id, e, w[e].translation)
         IN SendExistingPlayersTwice(
                SendTo(SendTo(s, conns, c, m), conns, c, m), conns, c, w, Tail(es))

RECURSIVE SendExistingPlayers(_, _, _, _, _)
\* "Initialize other players for this new client": one PlayerCreate per
\* entity of the players query, to the new client only
SendExistingPlayers(s, conns, c, w, es) ==
    IF es = <<>> THEN s
    ELSE LET e == Head(es)
         IN SendExistingPlayers(
                SendTo(s, conns, c, PlayerCreate(w[e].id, e, w[e].translation)),
                conns, c, w, Tail(es))

\* Faulty variant of OnClientConnected: the new player is broadcast before
\* the existing players are sent to the new client.
OnClientConnectedBroadcastFirst(acc, c, w, conns) ==
    LET e == acc.next
        announced == Broadcast(acc.sent, conns, PlayerCreate(c, e, SpawnTranslation))
    IN [acc EXCEPT
            !.next = e + 1,
            !.cmds = Append(@, CmdSpawn(e, PlayerComponents(c, SpawnTranslation))),
            !.lobby[c] = e,
            !.sent = SendExistingPlayers(announced, conns, c, w, SetToSeq(PlayersOf(w))),
            !.join[c] = [handled |-> TRUE, conns |-> conns, live |-> DOMAIN w,
                         entity |-> e]]

\* Faulty variant of OnClientConnected: the new player is broadcast twice.
OnClientConnectedAnnouncesTwice(acc, c, w, conns) ==
    LET caught == SendExistingPlayers(acc.sent, conns, c, w, SetToSeq(PlayersOf(w)))
        e == acc.next
        once == Broadcast(caught, conns, PlayerCreate(c, e, SpawnTranslation))
    IN [acc EXCEPT
            !.next = e + 1,
            !.cmds = Append(@, CmdSpawn(e, PlayerComponents(c, SpawnTranslation))),
            !.lobby[c] = e,
            !.sent = Broadcast(once, conns, PlayerCreate(c, e, SpawnTranslation)),
            !.join[c] = [handled |-> TRUE, conns |-> conns, live |-> DOMAIN w,
                         entity |-> e]]

\* ServerEvent::ClientConnected.  w is the world the players query reads:
\* the world as it was when the system started.
OnClientConnected(acc, c, w, conns) ==
    LET caught == SendExistingPlayers(acc.sent, conns, c, w, SetToSeq(PlayersOf(w)))
        e == acc.next
    IN [acc EXCEPT
            !.next = e + 1,
            !.cmds = Append(@, CmdSpawn(e, PlayerComponents(c, SpawnTranslation))),
            !.lobby[c] = e,
            !.sent = Broadcast(caught, conns, PlayerCreate(c, e, SpawnTranslation)),
            !.join[c] = [handled |-> TRUE, conns |-> conns, live |-> DOMAIN w,
                         entity |-> e]]

\* Faulty variant of OnClientDisconnected: the player entity is not despawned.
OnClientDisconnectedNoDespawn(acc, c, w, conns) ==
    LET e == acc.lobby[c]
    IN [acc EXCEPT
            !.lobby[c] = None,
            !.sent = Broadcast(@, conns, PlayerRemove(c)),
            !.leave[c] = [handled |-> TRUE, conns |-> conns, entity |-> e]]

\* Faulty variant of OnClientDisconnected: the lobby entry is read, not removed.
OnClientDisconnectedKeepsLobby(acc, c, w, conns) ==
    LET e == acc.lobby[c]
    IN [acc EXCEPT
            !.cmds = IF e # None THEN Append(@, CmdDespawn(e)) ELSE @,
            !.sent = Broadcast(@, conns, PlayerRemove(c)),
            !.leave[c] = [handled |-> TRUE, conns |-> conns, entity |-> e]]

\* ServerEvent::ClientDisconnected
OnClientDisconnected(acc, c, w, conns) ==
    LET e == acc.lobby[c]
    IN [acc EXCEPT
            !.lobby[c] = None,
            !.cmds = IF e # None THEN Append(@, CmdDespawn(e)) ELSE @,
            !.sent = Broadcast(@, conns, PlayerRemove(c)),
            !.leave[c] = [handled |-> TRUE, conns |-> conns, entity |-> e]]

RECURSIVE ReadServerEvents(_, _, _, _)
\* for event in server_events.read()
ReadServerEvents(acc, events, w, conns) ==
    IF events = <<>> THEN acc
    ELSE LET ev == Head(events)
             acc1 == IF ev.type = "ClientConnected"
                     THEN OnClientConnected(acc, ev.client_id, w, conns)
                     ELSE OnClientDisconnected(acc, ev.client_id, w, conns)
         IN ReadServerEvents(acc1, Tail(events), w, conns)

\* the attack aimed at cast_at as sent, its height kept
OnBasicAttackUnflattened(acc, c, cast_at, w, conns) ==
    LET pe == acc.lobby[c]
    IN IF pe # None /\ pe \in PlayersOf(w)
       THEN LET p == w[pe].translation
                direction == NormalizeOrZero(VecSub(cast_at, p))
                ahead == VecAdd(p, VecScale(direction, 7, 10))
                translation == <<ahead[1], 1000, ahead[3]>>
                e == acc.next
            IN [acc EXCEPT
                    !.next = e + 1,
                    !.cmds = Append(@, CmdSpawn(e, FireballComponents(translation, direction))),
                    !.sent = Broadcast(@, conns, SpawnProjectile(e, translation))]
       ELSE acc

\* PlayerCommand::BasicAttack { cast_at }
OnBasicAttack(acc, c, cast_at, w, conns) ==
    LET pe == acc.lobby[c]
    IN IF pe # None /\ pe \in PlayersOf(w)
       THEN LET p == w[pe].translation
                cast == <<cast_at[1], p[2], cast_at[3]>>
                direction == NormalizeOrZero(VecSub(cast, p))
                ahead == VecAdd(p, VecScale(direction, 7, 10))
                translation == <<ahead[1], 1000, ahead[3]>>
                e == acc.next
            IN [acc EXCEPT
                    !.next = e + 1,
                    !.cmds = Append(@, CmdSpawn(e, FireballComponents(translation, direction))),
                    !.sent = Broadcast(@, conns, SpawnProjectile(e, translation))]
       ELSE acc

\* one message of ClientChannel::Input
OnClientInput(acc, c, m, w) ==
    LET pe == acc.lobby[c]
    IN IF pe = None THEN acc
       ELSE CASE m.type = "Movement" ->
                    [acc EXCEPT !.cmds = Append(@, CmdInsertInput(pe, m.input))]
              [] m.type = "Rotation" ->
                    IF pe \in PlayersOf(w)
                    THEN [acc EXCEPT !.cmds =
                            Append(@, CmdInsertTransform(pe, w[pe].translation, m.rotation))]
                    ELSE acc
              [] m.type = "Position" ->
                    IF pe \in PlayersOf(w)
                    THEN [acc EXCEPT !.cmds =
                            Append(@, CmdInsertTransform(pe, m.position, w[pe].rotation))]
                    ELSE acc
              [] OTHER -> acc

RECURSIVE ReceiveCommands(_, _, _, _, _)
\* while let Some(message) = server.receive_message(client_id, ClientChannel::Command)
ReceiveCommands(acc, c, msgs, w, conns) ==
    IF msgs = <<>> THEN acc
    ELSE ReceiveCommands(OnBasicAttack(acc, c, Head(msgs), w, conns), c, Tail(msgs), w, conns)

RECURSIVE ReceiveInputs(_, _, _, _)
\* while let Some(message) = server.receive_message(client_id, ClientChannel::Input)
ReceiveInputs(acc, c, msgs, w) ==
    IF msgs = <<>> THEN acc
    ELSE ReceiveInputs(OnClientInput(acc, c, Head(msgs), w), c, Tail(msgs), w)

RECURSIVE ReceiveFromClients(_, _, _, _, _, _)
\* for client_id in server.clients_id()
ReceiveFromClients(acc, cs, commandq, inputq, w, conns) ==
    IF cs = <<>> THEN acc
    ELSE LET c == Head(cs)
             acc1 == ReceiveCommands(acc, c, commandq[c], w, conns)
             acc2 == ReceiveInputs(acc1, c, inputq[c], w)
         IN ReceiveFromClients(acc2, Tail(cs), commandq, inputq, w, conns)

\* ------------------------------------------------------------ transport
\* sequences over S of length at most n
SeqsUpTo(S, n) == UNION {[1..k -> S] : k \in 0..n}

ServerEvent(type, c) == [type |-> type, client_id |-> c]
ServerEvents ==
    {ServerEvent(t, c) : t \in {"ClientConnected", "ClientDisconnected"}, c \in Clients}

\* the connection state machine: Connecting -> Connected -> Disconnected
AfterEvent(cs, ev) ==
    [cs EXCEPT ![ev.client_id] =
        IF ev.type = "ClientConnected" THEN "Connected" ELSE "Disconnected"]

RECURSIVE AfterEvents(_, _)
AfterEvents(cs, events) ==
    IF events = <<>> THEN cs ELSE AfterEvents(AfterEvent(cs, Head(events)), Tail(events))

RECURSIVE TransportAllowsReconnect(_, _)
\* a transport that lets a disconnected client id connect again
TransportAllowsReconnect(cs, events) ==
    IF events = <<>> THEN TRUE
    ELSE LET ev == Head(events)
         IN /\ IF ev.type = "ClientConnected" THEN cs[ev.client_id] # "Connected"
               ELSE cs[ev.client_id] = "Connected"
            /\ TransportAllowsReconnect(AfterEvent(cs, ev), Tail(events))

RECURSIVE TransportAllows(_, _)
\* the transport connects a client once and disconnects only a connected one
\* (a client id is the start time of its process, so a later connection
\* comes with another id)
TransportAllows(cs, events) ==
    IF events = <<>> THEN TRUE
    ELSE LET ev == Head(events)
         IN /\ cs[ev.client_id] =
                 (IF ev.type = "ClientConnected" THEN "Connecting" ELSE "Connected")
            /\ TransportAllows(AfterEvent(cs, ev), Tail(events))

ConnectsIn(events) ==
    Cardinality({i \in DOMAIN events : events[i].type = "ClientConnected"})

\* ------------------------------------------------ server_update_system
\* One tick: the transport has reported `events` and holds the connections
\* left after them (PreUpdate), and has received `commands` and `inputs`
\* from client `from`.  The system runs from its first line to its last and
\* its Commands are applied after it.
ServerTick(events, from, commands, inputs) ==
    LET after == AfterEvents(connState, events)
        conns == {c \in Clients : after[c] = "Connected"}
        commandq == [c \in Clients |-> IF c = from THEN commands ELSE <<>>]
        inputq == [c \in Clients |-> IF c = from THEN inputs ELSE <<>>]
        acc0 == [lobby |-> lobby, cmds |-> <<>>, sent |-> sent, next |-> nextEntity,
                 join |-> joinInfo, leave |-> leaveInfo]
        acc1 == ReadServerEvents(acc0, events, world, conns)
        acc2 == ReceiveFromClients(acc1, SetToSeq(conns), commandq, inputq, world, conns)
    IN /\ TransportAllows(connState, events)
       /\ events # <<>> \/ commands # <<>> \/ inputs # <<>>
       /\ commands # <<>> \/ inputs # <<>> => from \in conns
       /\ (nextEntity - 1) + ConnectsIn(events) + Len(commands) <= MaxEntities
       /\ connState' = after
       /\ lobby' = acc2.lobby
       /\ world' = ApplyCommands(world, acc2.cmds)
       /\ nextEntity' = acc2.next
       /\ sent' = acc2.sent
       /\ joinInfo' = acc2.join
       /\ leaveInfo' = acc2.leave
       /\ UNCHANGED <<snapq, clientVars, injected, timerVars>>

\* a tick whose messages are handed in from outside the model
ServerUpdateSystem(events, from, commands, inputs) ==
    /\ ServerTick(events, from, commands, inputs)
    /\ UNCHANGED controlVars

\* ------------------------------------------------- server_network_sync
\* the batch without the projectiles
SnapshotOfPlayers(w) ==
    LET es == SetToSeq(PlayersOf(w))
    IN NetworkedEntities(es,
                         [i \in DOMAIN es |-> w[es[i]].translation],
                         [i \in DOMAIN es |-> w[es[i]].rotation])

\* one batch of every Player and Projectile entity with its Transform
SnapshotOf(w) ==
    LET es == SetToSeq(PlayersOf(w) \cup ProjectilesOf(w))
    IN NetworkedEntities(es,
                         [i \in DOMAIN es |-> w[es[i]].translation],
                         [i \in DOMAIN es |-> w[es[i]].rotation])

\* a batch goes onto the channel whatever it holds
BatchIsSentAlways(networked_entities) == TRUE

\* !networked_entities.entities.is_empty()
BatchIsSent(networked_entities) == networked_entities.entities # <<>>

\* The lines after the timer check.  The batch is broadcast on the
\* unreliable channel: it reaches the connections in `arrive` and is lost
\* on the way to the others.
SyncBroadcast(arrive) ==
    LET networked_entities == SnapshotOf(world)
    IN /\ arrive \subseteq Connections
       /\ \A c \in arrive : Len(snapq[c]) < MaxSnapQueue
       /\ snapq' = [c \in Clients |->
                        IF c \in arrive /\ BatchIsSent(networked_entities)
                        THEN Append(snapq[c], networked_entities)
                        ELSE snapq[c]]

\* A frame in which the NetworkSyncTimer has just finished, the timer left
\* out of the picture.
ServerNetworkSync(arrive) ==
    /\ SyncBroadcast(arrive)
    /\ UNCHANGED <<connState, serverVars, sent, clientVars, injected, timerVars, controlVars>>

\* NetworkSyncTimer: Timer::from_seconds(0.1, TimerMode::Repeating)
SyncPeriod == 100

\* the frame times of the server loop, in milliseconds
FrameDeltas == {50, 250}

\* Timer::tick of a repeating timer: it has just finished when the time
\* elapsed reaches the period, and keeps the remainder
TimerTick(elapsed, delta) ==
    [just_finished |-> elapsed + delta >= SyncPeriod,
     elapsed |-> (elapsed + delta) % SyncPeriod]

\* server_network_sync in a frame that took `delta` milliseconds
ServerNetworkSyncFrame(delta, arrive) ==
    LET tick == TimerTick(syncTimer, delta)
        networked_entities == SnapshotOf(world)
    IN /\ clock + delta <= MaxClock
       /\ syncTimer' = tick.elapsed
       /\ clock' = clock + delta
       /\ IF ~tick.just_finished
          THEN /\ arrive = {}
               /\ UNCHANGED <<snapq, syncLog>>
          ELSE /\ SyncBroadcast(arrive)
               /\ syncLog' = IF BatchIsSent(networked_entities)
                             THEN [fired |-> syncLog.fired + 1,
                                   count |-> syncLog.count + 1,
                                   batch |-> networked_entities,
                                   to |-> Connections]
                             ELSE [syncLog EXCEPT !.fired = @ + 1]
       /\ UNCHANGED <<connState, serverVars, sent, clientVars, injected, controlVars>>

\* -------------------------------------------- update_projectiles_system
\* projectile.duration.tick(time.delta())
TickProjectiles(w) ==
    [e \in DOMAIN w |->
        IF w[e].kind = "projectile" /\ w[e].duration > 0
        THEN [w[e] EXCEPT !.duration = @ - 1]
        ELSE w[e]]

\* no timer ever counts as finished
FinishedProjectilesNever(w) == {}

\* the projectiles whose timer has finished
FinishedProjectiles(w) == {e \in ProjectilesOf(w) : w[e].duration = 0}

RECURSIVE ProjectileOnRemovalTwice(_, _, _)
\* Faulty variant of ProjectileOnRemoval: two DespawnProjectile per entity.
ProjectileOnRemovalTwice(s, conns, removed) ==
    IF removed = <<>> THEN s
    ELSE LET m == DespawnProjectile(Head(removed))
         IN ProjectileOnRemovalTwice(Broadcast(Broadcast(s, conns, m), conns, m),
                                     conns, Tail(removed))

RECURSIVE ProjectileOnRemoval(_, _, _)
\* projectile_on_removal_system: one DespawnProjectile per removed entity
ProjectileOnRemoval(s, conns, removed) ==
    IF removed = <<>> THEN s
    ELSE ProjectileOnRemoval(Broadcast(s, conns, DespawnProjectile(Head(removed))),
                             conns, Tail(removed))

\* One frame of the projectiles: Update ticks the timers and despawns, the
\* despawns are applied, PostUpdate reports them.
UpdateProjectilesSystem ==
    LET ticked == TickProjectiles(world)
        finished == FinishedProjectiles(ticked)
    IN /\ ProjectilesOf(world) # {}
       /\ world' = [e \in DOMAIN ticked \ finished |-> ticked[e]]
       /\ sent' = ProjectileOnRemoval(sent, Connections, SetToSeq(finished))
       /\ UNCHANGED <<connState, lobby, nextEntity, snapq, clientVars, joinInfo,
                      leaveInfo, injected, timerVars, controlVars>>

\* -------------------------------------------------- client_sync_players
PlayerInfo(server_entity, client_entity) ==
    [server_entity |-> server_entity, client_entity |-> client_entity]
\* lobby.players holds no entry
NoInfo == PlayerInfo(None, None)

\* the local avatar: PlayerBundle at (0, 2, 0) with ControlledPlayer
AvatarComponents ==
    [kind |-> "avatar", controlled |-> TRUE, translation |-> SpawnTranslation,
     rotation |-> IdentityRotation]
\* a remote player: a sensor capsule at the translation of the message
RemoteComponents(translation) ==
    [kind |-> "remote", controlled |-> FALSE, translation |-> translation,
     rotation |-> IdentityRotation]
\* a projectile: a sphere at the translation of the message
ProjectileComponents(translation) ==
    [kind |-> "projectile", controlled |-> FALSE, translation |-> translation,
     rotation |-> IdentityRotation]

\* Commands::entity / Commands::get_entity: the entity is alive, or was
\* reserved by a spawn of this run (first is the first handle of this run)
EntityExists(w, first, st, e) == e \in DOMAIN w \/ (e >= first /\ e < st.next)

\* Faulty variant of OnPlayerCreate: every player gets the controlled avatar.
OnPlayerCreateAlwaysControlled(st, me, m) ==
    LET player_entity == st.next
    IN [st EXCEPT
            !.next = player_entity + 1,
            !.cmds = Append(@, CmdSpawn(player_entity, AvatarComponents)),
            !.lobby[m.id] = PlayerInfo(m.entity, player_entity),
            !.mapping[m.entity] = player_entity]

\* Faulty variant of OnPlayerCreate: the lobby entry is made, the mapping
\* entry is not.
OnPlayerCreateUnregistered(st, me, m) ==
    LET player_entity == st.next
        comps == IF me = m.id THEN AvatarComponents ELSE RemoteComponents(m.translation)
    IN [st EXCEPT
            !.next = player_entity + 1,
            !.cmds = Append(@, CmdSpawn(player_entity, comps)),
            !.lobby[m.id] = PlayerInfo(m.entity, player_entity)]

\* ServerMessages::PlayerCreate { id, translation, entity }
OnPlayerCreate(st, me, m) ==
    LET player_entity == st.next
        comps == IF me = m.id THEN AvatarComponents ELSE RemoteComponents(m.translation)
    IN [st EXCEPT
            !.next = player_entity + 1,
            !.cmds = Append(@, CmdSpawn(player_entity, comps)),
            !.lobby[m.id] = PlayerInfo(m.entity, player_entity),
            !.mapping[m.entity] = player_entity]

\* Faulty variant of OnPlayerRemove: the mirror is despawned, its mapping
\* entry stays.
OnPlayerRemoveKeepsEntry(st, w, first, m) ==
    LET info == st.lobby[m.id]
    IN IF info = NoInfo THEN st
       ELSE IF ~EntityExists(w, first, st, info.client_entity)
       THEN [st EXCEPT !.lobby[m.id] = NoInfo, !.panic = TRUE]
       ELSE [st EXCEPT
                !.lobby[m.id] = NoInfo,
                !.cmds = Append(@, CmdDespawn(info.client_entity))]

\* Faulty variant of OnPlayerRemove: the lobby entry is read, not removed.
OnPlayerRemoveKeepsLobby(st, w, first, m) ==
    LET info == st.lobby[m.id]
    IN IF info = NoInfo THEN st
       ELSE IF ~EntityExists(w, first, st, info.client_entity)
       THEN [st EXCEPT !.panic = TRUE]
       ELSE [st EXCEPT
                !.cmds = Append(@, CmdDespawn(info.client_entity)),
                !.mapping[info.server_entity] = None]

\* ServerMessages::PlayerRemove { id }
OnPlayerRemove(st, w, first, m) ==
    LET info == st.lobby[m.id]
    IN IF info = NoInfo THEN st
       ELSE IF ~EntityExists(w, first, st, info.client_entity)
       THEN [st EXCEPT !.lobby[m.id] = NoInfo, !.panic = TRUE]
       ELSE [st EXCEPT
                !.lobby[m.id] = NoInfo,
                !.cmds = Append(@, CmdDespawn(info.client_entity)),
                !.mapping[info.server_entity] = None]

\* Faulty variant of OnSpawnProjectile: the projectile is registered under
\* the handle spawned before it.
OnSpawnProjectileSharedHandle(st, m) ==
    LET projectile_entity == st.next
    IN [st EXCEPT
            !.next = projectile_entity + 1,
            !.cmds = Append(@, CmdSpawn(projectile_entity, ProjectileComponents(m.translation))),
            !.mapping[m.entity] = projectile_entity - 1]

\* ServerMessages::SpawnProjectile { entity, translation }
OnSpawnProjectile(st, m) ==
    LET projectile_entity == st.next
    IN [st EXCEPT
            !.next = projectile_entity + 1,
            !.cmds = Append(@, CmdSpawn(projectile_entity, ProjectileComponents(m.translation))),
            !.mapping[m.entity] = projectile_entity]

\* Faulty variant of OnDespawnProjectile: the entry is looked up, not removed.
OnDespawnProjectileKeepsEntry(st, w, first, m) ==
    LET entity == st.mapping[m.entity]
    IN IF entity = None THEN st
       ELSE IF ~EntityExists(w, first, st, entity)
       THEN [st EXCEPT !.panic = TRUE]
       ELSE [st EXCEPT !.cmds = Append(@, CmdDespawn(entity))]

\* Faulty variant of OnDespawnProjectile: an entity without an entry is an error.
OnDespawnProjectileStrict(st, w, first, m) ==
    LET entity == st.mapping[m.entity]
    IN IF entity = None THEN [st EXCEPT !.panic = TRUE]
       ELSE IF ~EntityExists(w, first, st, entity)
       THEN [st EXCEPT !.mapping[m.entity] = None, !.panic = TRUE]
       ELSE [st EXCEPT
                !.mapping[m.entity] = None,
                !.cmds = Append(@, CmdDespawn(entity))]

\* Faulty variant of OnDespawnProjectile: the entry is removed, the local
\* entity is left alive.
OnDespawnProjectileKeepsEntity(st, w, first, m) ==
    LET entity == st.mapping[m.entity]
    IN IF entity = None THEN st
       ELSE [st EXCEPT !.mapping[m.entity] = None]

\* ServerMessages::DespawnProjectile { entity }
OnDespawnProjectile(st, w, first, m) ==
    LET entity == st.mapping[m.entity]
    IN IF entity = None THEN st
       ELSE IF ~EntityExists(w, first, st, entity)
       THEN [st EXCEPT !.mapping[m.entity] = None, !.panic = TRUE]
       ELSE [st EXCEPT
                !.mapping[m.entity] = None,
                !.cmds = Append(@, CmdDespawn(entity))]

\* the view model of an item a remote player holds: a child of its mirror
\* named "Equipped_<item>", at (0.4, -0.3, -0.5) of its parent
EquippedComponents(parent) ==
    [kind |-> "equipped", controlled |-> FALSE, translation |-> <<400, -300, -500>>,
     rotation |-> IdentityRotation, parent |-> parent]

\* children_query.get(entity), those named "Equipped_..."
EquippedChildren(w, entity) ==
    {e \in DOMAIN w : w[e].kind = "equipped" /\ w[e].parent = entity}

RECURSIVE DespawnAll(_, _)
DespawnAll(cmds, es) ==
    IF es = <<>> THEN cmds
    ELSE DespawnAll(Append(cmds, CmdDespawn(Head(es))), Tail(es))

\* Faulty variant of OnEquipItem: the client's own id is treated as any other.
OnEquipItemUnfiltered(st, w, first, me, m) ==
    LET info == st.lobby[m.player_id]
        world_item == st.mapping[m.item_entity]
        child == st.next
    IN IF info = NoInfo THEN st
       ELSE IF \/ world_item # None /\ ~EntityExists(w, first, st, world_item)
               \/ ~EntityExists(w, first, st, info.client_entity)
       THEN [st EXCEPT !.panic = TRUE]
       ELSE [st EXCEPT
                !.next = child + 1,
                !.cmds = (IF world_item # None
                          THEN Append(@, CmdInsertVisibility(world_item, TRUE)) ELSE @)
                            \o <<CmdSpawn(child, EquippedComponents(info.client_entity))>>]

\* ServerMessages::EquipItem { player_id, item_entity, .. }
OnEquipItem(st, w, first, me, m) ==
    LET info == st.lobby[m.player_id]
        world_item == st.mapping[m.item_entity]
        child == st.next
    IN IF m.player_id = me \/ info = NoInfo THEN st
       ELSE IF \/ world_item # None /\ ~EntityExists(w, first, st, world_item)
               \/ ~EntityExists(w, first, st, info.client_entity)
       THEN [st EXCEPT !.panic = TRUE]
       ELSE [st EXCEPT
                !.next = child + 1,
                !.cmds = (IF world_item # None
                          THEN Append(@, CmdInsertVisibility(world_item, TRUE)) ELSE @)
                            \o <<CmdSpawn(child, EquippedComponents(info.client_entity))>>]

\* ServerMessages::UnequipItem { player_id }
OnUnequipItem(st, w, me, m) ==
    LET info == st.lobby[m.player_id]
    IN IF m.player_id = me \/ info = NoInfo THEN st
       ELSE [st EXCEPT !.cmds =
                DespawnAll(@, SetToSeq(EquippedChildren(w, info.client_entity)))]

\* bincode::deserialize(&message).unwrap(), then match server_message
OnServerMessage(st, w, first, me, m) ==
    CASE m.type = "PlayerCreate" -> OnPlayerCreate(st, me, m)
      [] m.type = "PlayerRemove" -> OnPlayerRemove(st, w, first, m)
      [] m.type = "SpawnProjectile" -> OnSpawnProjectile(st, m)
      [] m.type = "DespawnProjectile" -> OnDespawnProjectile(st, w, first, m)
      [] m.type = "EquipItem" -> OnEquipItem(st, w, first, me, m)
      [] m.type = "UnequipItem" -> OnUnequipItem(st, w, me, m)
      [] m.type = "Undecodable" -> [st EXCEPT !.panic = TRUE]

RECURSIVE ReceiveServerMessages(_, _, _, _, _)
\* while let Some(message) = client.receive_message(ServerChannel::ServerMessages)
ReceiveServerMessages(st, w, first, me, msgs) ==
    IF msgs = <<>> \/ st.panic THEN st
    ELSE ReceiveServerMessages(OnServerMessage(st, w, first, me, Head(msgs)),
                               w, first, me, Tail(msgs))

\* networked_entities.translations[i] and .rotations[i] exist: indexing past
\* the end of either array panics
HasTransform(ne, i) == i <= Len(ne.translations) /\ i <= Len(ne.rotations)

\* the transform entity e has while this run of the system goes on: its
\* own if it was alive when the run started, else the one it is spawned with
TransformNow(w, e) ==
    IF e \in DOMAIN w THEN <<w[e].translation, w[e].rotation>>
    ELSE <<SpawnTranslation, IdentityRotation>>

\* Faulty variant of OnNetworkedEntity: the controlled player is not skipped.
OnNetworkedEntityUnfiltered(st, w, first, me, ne, i) ==
    LET entity == st.mapping[ne.entities[i]]
    IN IF entity = None THEN st
       ELSE IF EntityExists(w, first, st, entity)
       THEN IF HasTransform(ne, i)
            THEN [st EXCEPT !.cmds =
                    Append(@, CmdInsertTransform(entity, ne.translations[i], ne.rotations[i]))]
            ELSE [st EXCEPT !.panic = TRUE]
       ELSE st

\* Faulty variant of OnNetworkedEntity: an entry without mapping creates and
\* registers a local entity.
OnNetworkedEntityCreates(st, w, first, me, ne, i) ==
    LET entity == st.mapping[ne.entities[i]]
    IN IF entity = None
       THEN IF HasTransform(ne, i)
            THEN [st EXCEPT
                    !.next = st.next + 1,
                    !.cmds = Append(@, CmdSpawn(st.next, RemoteComponents(ne.translations[i]))),
                    !.mapping[ne.entities[i]] = st.next]
            ELSE [st EXCEPT !.panic = TRUE]
       ELSE IF st.lobby[me] # NoInfo /\ st.lobby[me].client_entity = entity THEN st
       ELSE IF EntityExists(w, first, st, entity)
       THEN IF HasTransform(ne, i)
            THEN [st EXCEPT !.cmds =
                    Append(@, CmdInsertTransform(entity, ne.translations[i], ne.rotations[i]))]
            ELSE [st EXCEPT !.panic = TRUE]
       ELSE st

\* the entry's translation applied, its rotation dropped
OnNetworkedEntityTranslationOnly(st, w, first, me, ne, i) ==
    LET entity == st.mapping[ne.entities[i]]
    IN IF entity = None THEN st
       ELSE IF st.lobby[me] # NoInfo /\ st.lobby[me].client_entity = entity
       THEN st
       ELSE IF EntityExists(w, first, st, entity)
       THEN IF HasTransform(ne, i)
            THEN [st EXCEPT !.cmds =
                    Append(@, CmdInsertTransform(entity, ne.translations[i], IdentityRotation))]
            ELSE [st EXCEPT !.panic = TRUE]
       ELSE st

\* one entry i of a snapshot
OnNetworkedEntity(st, w, first, me, ne, i) ==
    LET entity == st.mapping[ne.entities[i]]
    IN IF entity = None THEN st
       ELSE IF st.lobby[me] # NoInfo /\ st.lobby[me].client_entity = entity
       THEN [st EXCEPT !.ignored =
                @ \/ (/\ HasTransform(ne, i)
                      /\ TransformNow(w, entity) # <<ne.translations[i], ne.rotations[i]>>)]
       ELSE IF EntityExists(w, first, st, entity)
       THEN IF HasTransform(ne, i)
            THEN [st EXCEPT !.cmds =
                    Append(@, CmdInsertTransform(entity, ne.translations[i], ne.rotations[i]))]
            ELSE [st EXCEPT !.panic = TRUE]
       ELSE st

RECURSIVE ApplyNetworkedEntities(_, _, _, _, _, _)
\* for i in 0..networked_entities.entities.len()
ApplyNetworkedEntities(st, w, first, me, ne, i) ==
    IF i > Len(ne.entities) \/ st.panic THEN st
    ELSE ApplyNetworkedEntities(OnNetworkedEntity(st, w, first, me, ne, i),
                                w, first, me, ne, i + 1)

RECURSIVE ReceiveNetworkedEntitiesBackwards(_, _, _, _, _)
\* the queue applied from its last batch to its first
ReceiveNetworkedEntitiesBackwards(st, w, first, me, snaps) ==
    IF snaps = <<>> \/ st.panic THEN st
    ELSE ReceiveNetworkedEntitiesBackwards(
            ApplyNetworkedEntities(st, w, first, me, snaps[Len(snaps)], 1),
            w, first, me, SubSeq(snaps, 1, Len(snaps) - 1))

RECURSIVE ReceiveNetworkedEntities(_, _, _, _, _)
\* while let Some(message) = client.receive_message(ServerChannel::NetworkedEntities)
ReceiveNetworkedEntities(st, w, first, me, snaps) ==
    IF snaps = <<>> \/ st.panic THEN st
    ELSE ReceiveNetworkedEntities(
            ApplyNetworkedEntities(st, w, first, me, Head(snaps), 1),
            w, first, me, Tail(snaps))

RECURSIVE CommandsPanic(_, _)
\* EntityCommands::insert panics when its entity is gone by the time the
\* command is applied
CommandsPanic(w, cmds) ==
    IF cmds = <<>> THEN FALSE
    ELSE LET cmd == Head(cmds)
         IN \/ cmd.op \in {"transform", "input", "visibility"} /\ cmd.entity \notin DOMAIN w
            \/ CommandsPanic(ApplyCommand(w, cmd), Tail(cmds))

\* the transform the batch ne gives server entity e, <<>> if it names it not
\* or names it past the end of an array; the last entry if it names it twice
GivenBy(ne, e) ==
    LET at == {i \in DOMAIN ne.entities : ne.entities[i] = e}
    IN IF at = {} THEN <<>>
       ELSE LET i == CHOOSE i \in at : \A j \in at : j <= i
            IN IF HasTransform(ne, i) THEN <<ne.translations[i], ne.rotations[i]>>
               ELSE <<>>

\* two of the snapshots give a server entity that st maps to a mirror other
\* than the avatar of client me two different transforms
Overwrites(st, me, snaps) ==
    \E i, j \in DOMAIN snaps : \E e \in Entities :
        /\ i < j
        /\ st.mapping[e] # None
        /\ ~(st.lobby[me] # NoInfo /\ st.lobby[me].client_entity = st.mapping[e])
        /\ GivenBy(snaps[i], e) # <<>>
        /\ GivenBy(snaps[j], e) # <<>>
        /\ GivenBy(snaps[i], e) # GivenBy(snaps[j], e)

\* the reliable messages client c has received and not yet applied
Pending(c) == SubSeq(sent[c], relRead[c] + 1, Len(sent[c]))

\* a loop that takes one message off the channel and stops
ReceiveMessageOnce(queue) == IF queue = <<>> THEN 0 ELSE 1

\* while let Some(message) = client.receive_message(channel): the number of
\* messages the loop takes off a channel that holds `queue`
ReceiveMessageLoop(queue) == Len(queue)

\* The system from its first line to its last, Commands applied after it.
ClientSyncPlayers(c) ==
    LET st0 == [lobby |-> clobby[c], mapping |-> mapping[c], cmds |-> <<>>,
                next |-> nextLocal[c], panic |-> FALSE, ignored |-> ignored[c]]
        taken == ReceiveMessageLoop(Pending(c))
        snaps == SubSeq(snapq[c], 1, ReceiveMessageLoop(snapq[c]))
        msgs == [i \in 1..taken |-> Pending(c)[i].msg]
        st1 == ReceiveServerMessages(st0, cworld[c], nextLocal[c], c, msgs)
        st2 == ReceiveNetworkedEntities(st1, cworld[c], nextLocal[c], c, snaps)
        abort == st2.panic \/ CommandsPanic(cworld[c], st2.cmds)
    IN /\ connState[c] = "Connected"
       /\ ~panicked[c]
       /\ Pending(c) # <<>> \/ snapq[c] # <<>>
       /\ IF abort
          THEN /\ panicked' = [panicked EXCEPT ![c] = TRUE]
               /\ UNCHANGED <<clobby, mapping, cworld, nextLocal, relRead, snapq,
                               ignored, overwrote>>
          ELSE /\ clobby' = [clobby EXCEPT ![c] = st2.lobby]
               /\ mapping' = [mapping EXCEPT ![c] = st2.mapping]
               /\ cworld' = [cworld EXCEPT ![c] = ApplyCommands(cworld[c], st2.cmds)]
               /\ nextLocal' = [nextLocal EXCEPT ![c] = st2.next]
               /\ relRead' = [relRead EXCEPT ![c] = @ + taken]
               /\ snapq' = [snapq EXCEPT ![c] = SubSeq(@, Len(snaps) + 1, Len(@))]
               /\ ignored' = [ignored EXCEPT ![c] = st2.ignored]
               /\ overwrote' = [overwrote EXCEPT ![c] = @ \/ Overwrites(st1, c, snaps)]
               /\ UNCHANGED panicked
       /\ UNCHANGED <<connState, serverVars, sent, injected, timerVars, controlVars>>

\* ------------------------------------------------------ specifications
Init ==
    /\ connState = [c \in Clients |-> "Connecting"]
    /\ lobby = [c \in Clients |-> None]
    /\ world = <<>>
    /\ nextEntity = 1
    /\ sent = [c \in Clients |-> <<>>]
    /\ relRead = [c \in Clients |-> 0]
    /\ snapq = [c \in Clients |-> <<>>]
    /\ clobby = [c \in Clients |-> [id \in Clients |-> NoInfo]]
    /\ mapping = [c \in Clients |-> [e \in Entities |-> None]]
    /\ cworld = [c \in Clients |-> <<>>]
    /\ nextLocal = [c \in Clients |-> 1]
    /\ panicked = [c \in Clients |-> FALSE]
    /\ joinInfo = [c \in Clients |-> [handled |-> FALSE, conns |-> {}, live |-> {},
                                      entity |-> None]]
    /\ leaveInfo = [c \in Clients |-> [handled |-> FALSE, conns |-> {}, entity |-> None]]
    /\ ignored = [c \in Clients |-> FALSE]
    /\ overwrote = [c \in Clients |-> FALSE]
    /\ injected = 0
    /\ syncTimer = 0
    /\ clock = 0
    /\ syncLog = [fired |-> 0, count |-> 0, batch |-> NetworkedEntities(<<>>, <<>>, <<>>),
                  to |-> {}]
    /\ timeElapsed = [c \in Clients |-> 0]
    /\ playerInput = [c \in Clients |-> DefaultInput]
    /\ lastSent = [c \in Clients |->
                        [rotation |-> 0, position |-> 0, interact |-> 0, equip |-> 0]]
    /\ equipment = [c \in Clients |-> [equipped_item |-> None, items |-> StartItems]]
    /\ inFlight = [c \in Clients |-> <<>>]
    /\ sentAt = [c \in Clients |-> [k \in InputKinds |-> [at |-> -1, prev |-> -1]]]

\* The events plane: connections come and go, attacks spawn projectiles,
\* projectiles expire, snapshots are broadcast, clients apply what arrives.
Next ==
    \/ \E events \in SeqsUpTo(ServerEvents, MaxEvents), from \in Clients,
          commands \in SeqsUpTo(CastPoints, MaxCommands) :
            ServerUpdateSystem(events, from, commands, <<>>)
    \/ \E arrive \in SUBSET Clients : ServerNetworkSync(arrive)
    \/ UpdateProjectilesSystem
    \/ \E c \in Clients : ClientSyncPlayers(c)

Spec == Init /\ [][Next]_vars

\* The input plane: clients join one at a time and report rotation and
\* position; snapshots carry the result back.
TransformReports ==
    {Rotation(r) : r \in ReportedRotations} \cup {Position(p) : p \in ReportedPositions}

InputNext ==
    \/ \E c \in Clients :
            ServerUpdateSystem(<<ServerEvent("ClientConnected", c)>>, c, <<>>, <<>>)
    \/ \E from \in Clients, inputs \in SeqsUpTo(TransformReports, MaxInput) :
            ServerUpdateSystem(<<>>, from, <<>>, inputs)
    \/ \E arrive \in SUBSET Clients : ServerNetworkSync(arrive)
    \/ \E c \in Clients : ClientSyncPlayers(c)

InputSpec == Init /\ [][InputNext]_vars

\* ---------------------------------------------------- an arbitrary peer
\* The client process alone, connected to a peer that may send any
\* message in any order, batches with arrays of unequal length included.
Me == CHOOSE c \in Clients : \A d \in Clients : c <= d

AnyServerMessages ==
    {PlayerCreate(id, e, SpawnTranslation) : id \in Clients, e \in Entities}
        \cup {PlayerRemove(id) : id \in Clients}
        \cup {SpawnProjectile(e, t) : e \in Entities, t \in ReportedPositions}
        \cup {DespawnProjectile(e) : e \in Entities}

AnySnapshots ==
    {NetworkedEntities(<<e>>, <<t>>, <<r>>) :
        e \in Entities, t \in AnyTranslations, r \in AnyRotations}
        \cup {NetworkedEntities(<<e>>, <<>>, <<>>) : e \in Entities}

\* client.is_connected() becomes true
PeerConnects(c) ==
    /\ connState[c] = "Connecting"
    /\ connState' = [connState EXCEPT ![c] = "Connected"]
    /\ UNCHANGED <<serverVars, sent, snapq, clientVars, injected, timerVars, controlVars>>

\* a message arrives on ServerChannel::ServerMessages
PeerSends(c, m) ==
    /\ connState[c] = "Connected"
    /\ injected < MaxInject
    /\ injected' = injected + 1
    /\ sent' = [sent EXCEPT ![c] = Append(@, [msg |-> m, unicast |-> FALSE])]
    /\ UNCHANGED <<connState, serverVars, snapq, clientVars, timerVars, controlVars>>

\* a batch arrives on ServerChannel::NetworkedEntities
PeerSendsSnapshot(c, ne) ==
    /\ connState[c] = "Connected"
    /\ injected < MaxInject
    /\ Len(snapq[c]) < MaxSnapQueue
    /\ injected' = injected + 1
    /\ snapq' = [snapq EXCEPT ![c] = Append(@, ne)]
    /\ UNCHANGED <<connState, serverVars, sent, clientVars, timerVars, controlVars>>

ClientNext ==
    \/ PeerConnects(Me)
    \/ \E m \in AnyServerMessages : PeerSends(Me, m)
    \/ \E ne \in AnySnapshots : PeerSendsSnapshot(Me, ne)
    \/ ClientSyncPlayers(Me)

ClientSpec == Init /\ [][ClientNext]_vars

\* ------------------------------------------------------------ properties
\* the server entities client c tracks, and the local handles it holds for them
Tracked(c) == {e \in Entities : mapping[c][e] # None}
Handles(c) == {mapping[c][e] : e \in Tracked(c)}
\* the player ids client c holds in its lobby
LobbyIds(c) == {id \in Clients : clobby[c][id] # NoInfo}
\* the positions in the reliable stream of connection c that hold message m
Positions(c, m) == {i \in DOMAIN sent[c] : sent[c][i].msg = m}
\* the positions in the reliable stream of connection c sent to c alone
CatchUp(c) == {i \in DOMAIN sent[c] : sent[c][i].unicast}

C2_MappingBijective ==
    \A c \in Clients :
        /\ \A e1, e2 \in Tracked(c) : mapping[c][e1] = mapping[c][e2] => e1 = e2
        /\ \A id \in LobbyIds(c) :
                mapping[c][clobby[c][id].server_entity] = clobby[c][id].client_entity

\* a client tracks a player and a projectile at once
C2_Witness ==
    \E c \in Clients : \E e1, e2 \in Tracked(c) :
        /\ cworld[c][mapping[c][e1]].kind = "projectile"
        /\ cworld[c][mapping[c][e2]].kind \in {"avatar", "remote"}

\* C3: in every client the live local mirror entities are exactly the
\* handles of the mapping: no mirror without an entry, no entry whose mirror
\* is gone.
C3_MirrorsAreMapped ==
    \A c \in Clients : Handles(c) = DOMAIN cworld[c]

\* a client has applied the creation and then the removal of a player and
\* still mirrors something
C3_Witness ==
    \E c \in Clients : \E i, j \in 1..relRead[c] :
        /\ i < j
        /\ sent[c][i].msg.type = "PlayerCreate"
        /\ sent[c][j].msg = PlayerRemove(sent[c][i].msg.id)
        /\ DOMAIN cworld[c] # {}

\* every connected client has applied every reliable message sent to it
Quiescent == \A c \in Connections : relRead[c] = Len(sent[c]) /\ ~panicked[c]

\* C4: once every reliable message has been delivered and applied, each
\* connected client's lobby holds exactly the player ids of the server lobby.
C4_LobbiesAgree ==
    Quiescent => \A c \in Connections : LobbyIds(c) = {id \in Clients : lobby[id] # None}

\* C5: on every connection's reliable stream no PlayerRemove of a player
\* comes before a PlayerCreate of that player's entity.
C5_CreateBeforeRemove ==
    \A c \in Clients : \A i, j \in DOMAIN sent[c] :
        (/\ sent[c][i].msg.type = "PlayerRemove"
         /\ sent[c][j].msg.type = "PlayerCreate"
         /\ sent[c][j].msg.id = sent[c][i].msg.id) => j < i

\* C6: the creation events sent to a new connection alone name every entity
\* that was live in the server world when it connected, each exactly once,
\* and nothing else.
C6_CatchUpCoversLive ==
    \A c \in Clients :
        (joinInfo[c].handled /\ c \in joinInfo[c].conns) =>
            /\ {sent[c][i].msg.entity : i \in CatchUp(c)} = joinInfo[c].live
            /\ \A i, j \in CatchUp(c) :
                    sent[c][i].msg.entity = sent[c][j].msg.entity => i = j

\* C7: the PlayerCreate of a joining player is on the stream of every
\* connection the server holds in that tick, and on the joining connection
\* every message sent to it alone comes before it.
C7_CatchUpBeforeOwnCreate ==
    \A c \in Clients :
        joinInfo[c].handled =>
            LET own == PlayerCreate(c, joinInfo[c].entity, SpawnTranslation)
            IN /\ \A d \in joinInfo[c].conns :
                    \E i \in Positions(d, own) : ~sent[d][i].unicast
               /\ \A i \in CatchUp(c), j \in Positions(c, own) :
                    ~sent[c][j].unicast => i < j

\* a client joined next to another one, was sent an existing player and its
\* own creation
C7_Witness ==
    \E c \in Clients :
        /\ joinInfo[c].handled
        /\ c \in joinInfo[c].conns
        /\ joinInfo[c].conns # {c}
        /\ CatchUp(c) # {}

\* C8: after the server has processed the disconnect of client c, c's player
\* entity is gone from the world, the lobby holds no entry for c, and the
\* stream of each connection the server held in that tick carries exactly
\* one PlayerRemove of c (and no other stream carries one).
C8_DisconnectCleansUp ==
    \A c \in Clients :
        leaveInfo[c].handled =>
            /\ leaveInfo[c].entity # None
            /\ leaveInfo[c].entity \notin DOMAIN world
            /\ lobby[c] = None
            /\ \A d \in Clients :
                    Cardinality(Positions(d, PlayerRemove(c))) =
                        IF d \in leaveInfo[c].conns THEN 1 ELSE 0

\* a client has left while another connection remained
C8_Witness ==
    \E c \in Clients :
        /\ leaveInfo[c].handled
        /\ leaveInfo[c].conns # {}
        /\ joinInfo[c].entity = leaveInfo[c].entity

\* C9: the server lobby holds an entry for client c exactly when c is
\* connected, the entry is a live player entity with id c, and no two ids
\* share an entity.
C9_LobbyMatchesConnections ==
    /\ \A c \in Clients : (lobby[c] # None) <=> (connState[c] = "Connected")
    /\ \A c \in Clients :
            lobby[c] # None => lobby[c] \in PlayersOf(world) /\ world[lobby[c]].id = c
    /\ \A c, d \in Clients : (lobby[c] # None /\ lobby[c] = lobby[d]) => c = d

\* a client connected and disconnected within one tick while another one
\* is connected
C9_Witness ==
    \E c, d \in Clients :
        /\ joinInfo[c].handled /\ c \notin joinInfo[c].conns
        /\ leaveInfo[c].handled
        /\ connState[d] = "Connected" /\ lobby[d] # None

\* C10: a run of client_sync_players whose only message registers a server
\* entity the mapping already holds does not complete with the entry
\* replaced: the registration fails and the entry stays.
C10_DuplicateRegistrationFails ==
    [][\A c \in Clients :
        (/\ Len(Pending(c)) = 1
         /\ Pending(c)[1].msg.type \in {"PlayerCreate", "SpawnProjectile"}
         /\ mapping[c][Pending(c)[1].msg.entity] # None
         /\ relRead'[c] # relRead[c])
            => mapping'[c] = mapping[c]]_vars

\* the last reliable message a run of client c has to apply
LastPending(c) == Pending(c)[Len(Pending(c))].msg

\* C11: when a run of client_sync_players ends with a registration of server
\* entity s (PlayerCreate, SpawnProjectile), resolving s afterwards gives the
\* live handle that registration created; when it ends with the
\* unregistration of s (DespawnProjectile), resolving s gives nothing.
C11_ResolveAfterRegister ==
    [][\A c \in Clients :
        (Pending(c) # <<>> /\ relRead'[c] # relRead[c]) =>
            LET m == LastPending(c)
            IN /\ m.type \in {"PlayerCreate", "SpawnProjectile"} =>
                    /\ mapping'[c][m.entity] = nextLocal'[c] - 1
                    /\ mapping'[c][m.entity] >= nextLocal[c]
                    /\ mapping'[c][m.entity] \in DOMAIN cworld'[c]
               /\ m.type = "DespawnProjectile" => mapping'[c][m.entity] = None]_vars

\* a client has registered two server entities and unregistered one of them:
\* one resolves to nothing, the other to a live handle
C11_Witness ==
    \E c \in Clients : \E i, j \in 1..relRead[c] : \E e \in Tracked(c) :
        /\ i < j
        /\ sent[c][i].msg.type = "SpawnProjectile"
        /\ sent[c][j].msg = DespawnProjectile(sent[c][i].msg.entity)
        /\ mapping[c][sent[c][i].msg.entity] = None
        /\ mapping[c][e] \in DOMAIN cworld[c]

\* message m removes something client c does not track
UntrackedRemoval(c, m) ==
    \/ m.type = "PlayerRemove" /\ clobby[c][m.id] = NoInfo
    \/ m.type = "DespawnProjectile" /\ mapping[c][m.entity] = None

\* the state a run of client c starts from, and the result of applying the
\* reliable messages msgs to it
RunState(c) ==
    [lobby |-> clobby[c], mapping |-> mapping[c], cmds |-> <<>>,
     next |-> nextLocal[c], panic |-> FALSE, ignored |-> ignored[c]]
Applied(c, msgs) == ReceiveServerMessages(RunState(c), cworld[c], nextLocal[c], c, msgs)

\* C12: a run of client_sync_players that applies only removals of things the
\* client does not track changes neither mapping, lobby nor local entities
\* and raises no error; and in every state, applying a removal twice gives
\* what applying it once gives.
C12_UntrackedRemovalIsNoOp ==
    /\ [][\A c \in Clients :
            (/\ Pending(c) # <<>>
             /\ snapq[c] = <<>>
             /\ \A i \in DOMAIN Pending(c) : UntrackedRemoval(c, Pending(c)[i].msg)
             /\ (relRead'[c] # relRead[c] \/ panicked'[c] # panicked[c]))
                => /\ mapping'[c] = mapping[c]
                   /\ clobby'[c] = clobby[c]
                   /\ cworld'[c] = cworld[c]
                   /\ nextLocal'[c] = nextLocal[c]
                   /\ ~panicked'[c]]_vars
    /\ [](\A c \in Clients :
            \A r \in {PlayerRemove(id) : id \in Clients}
                        \cup {DespawnProjectile(e) : e \in Entities} :
                Applied(c, <<r, r>>) = Applied(c, <<r>>))

\* a client has applied the creation of a player, its removal, and the same
\* removal once more, without error
C12_Witness ==
    \E c \in Clients : \E i \in 1..relRead[c] :
        /\ i + 2 <= relRead[c]
        /\ sent[c][i].msg.type = "PlayerCreate"
        /\ sent[c][i + 1].msg = PlayerRemove(sent[c][i].msg.id)
        /\ sent[c][i + 2].msg = sent[c][i + 1].msg
        /\ ~panicked[c]

\* C13: a run of client_sync_players that ends with PlayerCreate{id, E} for
\* the client's own id leaves a live controlled avatar registered in the
\* lobby under id and in the mapping under E; a run that applies
\* PlayerRemove{id} for the own id leaves no mapping entry for the entity the
\* lobby held, no lobby entry for id, and the avatar destroyed; likewise
\* when the removal directly follows the creation within one run.
C13_OwnAvatarCreatedAndRemoved ==
    [][\A c \in Clients :
        (Pending(c) # <<>> /\ relRead'[c] # relRead[c]) =>
            LET n == Len(Pending(c))
                m == LastPending(c)
                h == nextLocal'[c] - 1
                info == clobby[c][c]
            IN /\ (m.type = "PlayerCreate" /\ m.id = c) =>
                    /\ h >= nextLocal[c]
                    /\ clobby'[c][c] = PlayerInfo(m.entity, h)
                    /\ mapping'[c][m.entity] = h
                    /\ h \in DOMAIN cworld'[c]
                    /\ cworld'[c][h].kind = "avatar" /\ cworld'[c][h].controlled
               /\ (n = 1 /\ m = PlayerRemove(c) /\ info # NoInfo) =>
                    /\ mapping'[c][info.server_entity] = None
                    /\ clobby'[c][c] = NoInfo
                    /\ info.client_entity \notin DOMAIN cworld'[c]
               /\ (/\ n >= 2 /\ m = PlayerRemove(c)
                   /\ Pending(c)[n - 1].msg.type = "PlayerCreate"
                   /\ Pending(c)[n - 1].msg.id = c) =>
                    /\ mapping'[c][Pending(c)[n - 1].msg.entity] = None
                    /\ clobby'[c][c] = NoInfo
                    /\ h \notin DOMAIN cworld'[c]]_vars

\* a client has applied the creation of its own player and then its removal
C13_Witness ==
    \E c \in Clients : \E i, j \in 1..relRead[c] :
        /\ i < j
        /\ sent[c][i].msg.type = "PlayerCreate" /\ sent[c][i].msg.id = c
        /\ sent[c][j].msg = PlayerRemove(c)
        /\ mapping[c][sent[c][i].msg.entity] = None
        /\ clobby[c][c] = NoInfo
        /\ ~panicked[c]

\* C14: a run of client_sync_players that ends with PlayerCreate{id, E}
\* leaves E mapped to a local entity spawned in that run, and that entity is
\* marked controlled exactly when id is the client's own id; otherwise it is
\* a remote representation.
C14_ControlledIffOwnId ==
    [][\A c \in Clients :
        (/\ Pending(c) # <<>>
         /\ relRead'[c] # relRead[c]
         /\ LastPending(c).type = "PlayerCreate") =>
            LET m == LastPending(c)
                h == mapping'[c][m.entity]
            IN /\ h = nextLocal'[c] - 1 /\ h >= nextLocal[c]
               /\ h \in DOMAIN cworld'[c]
               /\ cworld'[c][h].controlled <=> (m.id = c)
               /\ m.id # c => cworld'[c][h].kind = "remote"]_vars

\* a client holds its own controlled avatar and a remote player that is not
\* controlled, both mapped
C14_Witness ==
    \E c, d \in Clients :
        /\ c # d
        /\ clobby[c][c] # NoInfo /\ clobby[c][d] # NoInfo
        /\ mapping[c][clobby[c][c].server_entity] = clobby[c][c].client_entity
        /\ mapping[c][clobby[c][d].server_entity] = clobby[c][d].client_entity
        /\ clobby[c][c].client_entity \in DOMAIN cworld[c]
        /\ clobby[c][d].client_entity \in DOMAIN cworld[c]
        /\ cworld[c][clobby[c][c].client_entity].controlled
        /\ ~cworld[c][clobby[c][d].client_entity].controlled

\* the reliable messages client c has applied, in order
AppliedMsgs(c) == [i \in 1..relRead[c] |-> sent[c][i].msg]

\* client c has applied projectile events only, and no server entity was
\* spawned twice
OnlyDistinctProjectiles(c) ==
    LET a == AppliedMsgs(c)
    IN /\ \A i \in DOMAIN a : a[i].type \in {"SpawnProjectile", "DespawnProjectile"}
       /\ \A i, j \in DOMAIN a :
            (/\ a[i].type = "SpawnProjectile" /\ a[j].type = "SpawnProjectile"
             /\ a[i].entity = a[j].entity) => i = j

\* the server entities spawned and not despawned afterwards in what client c
\* has applied
SpawnedNotDespawned(c) ==
    LET a == AppliedMsgs(c)
    IN {a[i].entity : i \in {k \in DOMAIN a :
            /\ a[k].type = "SpawnProjectile"
            /\ \A j \in DOMAIN a : j > k => a[j] # DespawnProjectile(a[k].entity)}}

\* C15: after any sequence of SpawnProjectile and DespawnProjectile events
\* for distinct server entities, the client tracks exactly the entities
\* spawned and not yet despawned, each under its own live local projectile,
\* and holds no other local entity.
C15_ProjectilesTracked ==
    \A c \in Clients :
        OnlyDistinctProjectiles(c) =>
            /\ Tracked(c) = SpawnedNotDespawned(c)
            /\ \A e1, e2 \in Tracked(c) : mapping[c][e1] = mapping[c][e2] => e1 = e2
            /\ DOMAIN cworld[c] = Handles(c)
            /\ \A h \in DOMAIN cworld[c] : cworld[c][h].kind = "projectile"

\* a client has applied two spawns and then the despawn of the first: one
\* local entity remains, tracked for the second
C15_Witness ==
    \E c \in Clients :
        /\ relRead[c] = 3
        /\ sent[c][1].msg.type = "SpawnProjectile"
        /\ sent[c][2].msg.type = "SpawnProjectile"
        /\ sent[c][2].msg.entity # sent[c][1].msg.entity
        /\ sent[c][3].msg = DespawnProjectile(sent[c][1].msg.entity)
        /\ Tracked(c) = {sent[c][2].msg.entity}
        /\ Cardinality(DOMAIN cworld[c]) = 1

\* no entry of the snapshots waiting at client c names a server entity its
\* mapping holds
AllUnmapped(c) ==
    \A k \in DOMAIN snapq[c] : \A i \in DOMAIN snapq[c][k].entities :
        mapping[c][snapq[c][k].entities[i]] = None

\* C16: a run of client_sync_players that applies snapshots only, whatever
\* they contain (arrays of unequal length included), creates and destroys no
\* local entity and leaves mapping, lobby and handle counter unchanged; if
\* no entry of them is mapped, it raises no error and changes nothing at
\* all.  In a run that also applies reliable messages, mapping, lobby,
\* handle counter and the set of local entities are what the reliable
\* messages alone make them.
C16_SnapshotFrame ==
    [][\A c \in Clients :
        LET msgs == [i \in DOMAIN Pending(c) |-> Pending(c)[i].msg]
            rel == Applied(c, msgs)
        IN (snapq[c] # <<>> /\ (snapq'[c] = <<>> \/ panicked'[c] # panicked[c])) =>
            /\ Pending(c) = <<>> =>
                    /\ DOMAIN cworld'[c] = DOMAIN cworld[c]
                    /\ mapping'[c] = mapping[c]
                    /\ clobby'[c] = clobby[c]
                    /\ nextLocal'[c] = nextLocal[c]
                    /\ AllUnmapped(c) => (~panicked'[c] /\ cworld'[c] = cworld[c])
            /\ ~panicked'[c] =>
                    /\ DOMAIN cworld'[c] = DOMAIN ApplyCommands(cworld[c], rel.cmds)
                    /\ mapping'[c] = rel.mapping
                    /\ clobby'[c] = rel.lobby
                    /\ nextLocal'[c] = rel.next]_vars

\* a client that never received a reliable message, so that its mapping is
\* empty, has applied a snapshot without error and holds no local entity
C16_Witness ==
    \E c \in Clients :
        /\ connState[c] = "Connected"
        /\ sent[c] = <<>>
        /\ injected >= 1
        /\ snapq[c] = <<>>
        /\ ~panicked[c]
        /\ cworld[c] = <<>>
        /\ Tracked(c) = {}


\* -------------------------------------------------- the snapshot timer
\* The server loop with its frame times: connections come and go, attacks
\* spawn projectiles, projectiles expire, and every frame ticks the
\* NetworkSyncTimer.  The clients only receive.
TimerNext ==
    \/ \E ev \in ServerEvents : ServerUpdateSystem(<<ev>>, ev.client_id, <<>>, <<>>)
    \/ \E from \in Clients, commands \in SeqsUpTo(CastPoints, MaxCommands) :
            ServerUpdateSystem(<<>>, from, commands, <<>>)
    \/ UpdateProjectilesSystem
    \/ \E delta \in FrameDeltas, arrive \in SUBSET Clients :
            ServerNetworkSyncFrame(delta, arrive)

TimerSpec == Init /\ [][TimerNext]_vars

\* the entities of a batch, as a set
BatchEntities(ne) == {ne.entities[i] : i \in DOMAIN ne.entities}

\* C17: a frame of server_network_sync that puts a batch on the snapshot
\* channel puts one batch on it; the batch names every player and every
\* projectile of the server world and nothing else, none of them twice, in
\* three arrays of one length that hold each entity's own translation and
\* rotation; it is sent to every connection; and at no time were more
\* batches sent than timer periods have elapsed.
C17_SnapshotIsWholeWorld ==
    [][syncLog' # syncLog =>
        LET ne == syncLog'.batch
        IN /\ syncLog'.count <= syncLog.count + 1
           /\ syncLog'.count * SyncPeriod <= clock'
           /\ syncLog'.count = syncLog.count + 1 =>
                /\ BatchEntities(ne) = PlayersOf(world) \cup ProjectilesOf(world)
                /\ BatchEntities(ne) = DOMAIN world
                /\ Len(ne.entities) = Cardinality(BatchEntities(ne))
                /\ Len(ne.translations) = Len(ne.entities)
                /\ Len(ne.rotations) = Len(ne.entities)
                /\ \A i \in DOMAIN ne.entities :
                        /\ ne.translations[i] = world[ne.entities[i]].translation
                        /\ ne.rotations[i] = world[ne.entities[i]].rotation
                /\ syncLog'.to = Connections
                /\ \A c \in Clients :
                        snapq'[c] # snapq[c] =>
                            c \in Connections /\ snapq'[c] = Append(snapq[c], ne)]_vars

\* two batches were sent, the last of them with a player and a projectile
\* in it, to two connections, after a frame longer than two periods
C17_Witness ==
    /\ syncLog.count = 2
    /\ \E i, j \in DOMAIN syncLog.batch.entities :
            /\ syncLog.batch.entities[i] \in PlayersOf(world)
            /\ syncLog.batch.entities[j] \in ProjectilesOf(world)
    /\ Cardinality(syncLog.to) = 2
    /\ clock >= 3 * SyncPeriod


\* C18: no empty batch is ever put on the snapshot channel: every batch
\* sent or received names at least one entity, and a frame in which the
\* timer fires while the world holds no player and no projectile sends
\* nothing.
C18_NoEmptyBatch ==
    /\ [](syncLog.count > 0 => syncLog.batch.entities # <<>>)
    /\ [](\A c \in Clients : \A k \in DOMAIN snapq[c] : snapq[c][k].entities # <<>>)
    /\ [][(syncLog'.fired # syncLog.fired
            /\ PlayersOf(world) \cup ProjectilesOf(world) = {}) =>
                /\ syncLog'.count = syncLog.count
                /\ syncLog'.batch = syncLog.batch
                /\ snapq' = snapq]_vars

\* the timer has fired on an empty world after a batch had been sent: a
\* player joined, was snapshotted and left again
C18_Witness ==
    /\ syncLog.count >= 1
    /\ syncLog.fired > syncLog.count
    /\ world = <<>>


\* ------------------------------------------------- projectile lifetime
\* The events plane with the frames of update_projectiles_system kept
\* running: the system is in the Update schedule of every frame.
LiveSpec == Init /\ [][Next]_vars /\ WF_vars(UpdateProjectilesSystem)

\* how many DespawnProjectile{e} are on the stream s
DespawnCount(s, e) ==
    Cardinality({k \in DOMAIN s : s[k].msg = DespawnProjectile(e)})

\* C19: while frames keep running, every projectile of the server world is
\* eventually destroyed; the frame that destroys it puts exactly one
\* DespawnProjectile for it on the stream of every connection, no other
\* step puts any, and so no stream ever carries two.
C19_ProjectilesExpire ==
    /\ \A e \in Entities : (e \in ProjectilesOf(world)) ~> (e \notin DOMAIN world)
    /\ [][\A e \in Entities : \A c \in Clients :
            IF e \in ProjectilesOf(world) /\ e \notin DOMAIN world'
            THEN /\ DespawnCount(sent[c], e) = 0
                 /\ DespawnCount(sent'[c], e) = (IF c \in Connections THEN 1 ELSE 0)
            ELSE DespawnCount(sent'[c], e) = DespawnCount(sent[c], e)]_vars
    /\ [](\A e \in Entities : \A c \in Clients : DespawnCount(sent[c], e) <= 1)

\* a projectile was spawned and has expired, and a connection was told so
C19_Witness ==
    \E e \in Entities : \E c \in Connections :
        /\ e \notin DOMAIN world
        /\ \E k \in DOMAIN sent[c] : sent[c][k].msg.type = "SpawnProjectile"
                                     /\ sent[c][k].msg.entity = e
        /\ DespawnCount(sent[c], e) = 1


\* ------------------------------------------------------- basic attacks
\* where a player may stand and where it may aim: at the spawn point, at
\* the origin, elsewhere; ahead, behind, above, and straight at its own feet
AttackPositions == {<<0, 0, 0>>, <<3000, 2000, 0>>}
AttackCastPoints == {<<5000, 0, 5000>>, <<-2000, 3000, 1000>>, <<0, 0, 0>>}

\* one PlayerCommand::BasicAttack { cast_at } from client `from`
Attack(from, cast_at) == ServerUpdateSystem(<<>>, from, <<cast_at>>, <<>>)

\* Players join, report where they stand, and attack; projectiles expire.
AttackNext ==
    \/ \E c \in Clients :
            ServerUpdateSystem(<<ServerEvent("ClientConnected", c)>>, c, <<>>, <<>>)
    \/ \E from \in Clients, p \in AttackPositions :
            ServerUpdateSystem(<<>>, from, <<>>, <<Position(p)>>)
    \/ \E from \in Clients, cast_at \in AttackCastPoints : Attack(from, cast_at)
    \/ UpdateProjectilesSystem

AttackSpec == Init /\ [][AttackNext]_vars

\* C20: a BasicAttack{cast_at} from a connected player whose avatar stands
\* at P makes the server spawn one projectile and broadcast one
\* SpawnProjectile for it to every connection, and nothing else.  Its
\* origin is P moved 0.7 along the unit vector of the horizontal offset
\* from P to cast_at (the height of cast_at plays no part), with height
\* 1.0, and the projectile flies along that unit vector.  Where cast_at is
\* straight above or below P there is no such direction and the origin is
\* P at height 1.0.  From P = (0,0,0) towards (5,0,5) the direction is
\* (0.707, 0, 0.707), the normalized (5,0,5).
C20_AttackOrigin ==
    [][\A from \in Clients, cast_at \in AttackCastPoints :
        (Attack(from, cast_at) /\ lobby[from] \in PlayersOf(world)) =>
            LET P == world[lobby[from]].translation
                dx == cast_at[1] - P[1]
                dz == cast_at[3] - P[3]
                len == Isqrt(dx * dx + dz * dz)
                unit == IF len > 0
                        THEN <<(dx * 1000) \div len, 0, (dz * 1000) \div len>>
                        ELSE <<0, 0, 0>>
                origin == <<P[1] + (unit[1] * 7) \div 10, 1000,
                            P[3] + (unit[3] * 7) \div 10>>
                e == nextEntity
                message == [msg |-> SpawnProjectile(e, origin), unicast |-> FALSE]
            IN /\ from \in Connections
               /\ \A c \in Clients :
                    sent'[c] = IF c \in Connections THEN Append(sent[c], message)
                               ELSE sent[c]
               /\ DOMAIN world' = DOMAIN world \cup {e}
               /\ e \notin DOMAIN world
               /\ world'[e].kind = "projectile"
               /\ world'[e].translation = origin
               /\ len > 0 => world'[e].velocity = VecScale(unit, 10, 1)
               /\ (P = <<0, 0, 0>> /\ cast_at = <<5000, 0, 5000>>) =>
                    /\ unit = <<707, 0, 707>>
                    /\ origin = <<494, 1000, 494>>]_vars

\* a player standing at (0,0,0) has attacked towards (5,0,5) and both
\* connections were told of the projectile
C20_Witness ==
    \E c \in Connections, e \in ProjectilesOf(world) :
        /\ lobby[c] \in PlayersOf(world)
        /\ world[lobby[c]].translation = <<0, 0, 0>>
        /\ world[e].translation = <<494, 1000, 494>>
        /\ Cardinality(Connections) = 2
        /\ \A d \in Connections : \E k \in DOMAIN sent[d] :
                sent[d][k].msg = SpawnProjectile(e, <<494, 1000, 494>>)


\* ------------------------------------------------------ input reports
\* the last message of kind `type` in a sequence of inputs, <<>> if none
LastReport(inputs, type) ==
    LET at == {i \in DOMAIN inputs : inputs[i].type = type}
    IN IF at = {} THEN <<>>
       ELSE <<inputs[CHOOSE i \in at : \A j \in at : j <= i]>>

\* C21: after a tick that ingested input messages of a connected client
\* whose avatar exists, the avatar has the rotation of the last Rotation
\* report and the translation of the last Position report of that tick,
\* and keeps what it had of a kind the tick brought no report of.
C21_ReportsCompose ==
    [][\A from \in Clients, inputs \in SeqsUpTo(TransformReports, MaxInput) :
        (ServerUpdateSystem(<<>>, from, <<>>, inputs) /\ lobby[from] \in PlayersOf(world)) =>
            LET pe == lobby[from]
                rot == LastReport(inputs, "Rotation")
                pos == LastReport(inputs, "Position")
            IN /\ world'[pe].rotation =
                    (IF rot = <<>> THEN world[pe].rotation ELSE rot[1].rotation)
               /\ world'[pe].translation =
                    (IF pos = <<>> THEN world[pe].translation ELSE pos[1].position)]_vars


\* ------------------------------------------------- snapshot convergence
\* Players join, report their transforms and attack; snapshots are
\* broadcast and applied.
DeliveryNext ==
    \/ \E c \in Clients :
            ServerUpdateSystem(<<ServerEvent("ClientConnected", c)>>, c, <<>>, <<>>)
    \/ \E m \in TransformReports : ServerUpdateSystem(<<>>, Me, <<>>, <<m>>)
    \/ \E cast_at \in CastPoints : Attack(Me, cast_at)
    \/ \E arrive \in SUBSET Clients : ServerNetworkSync(arrive)
    \/ \E c \in Clients : ClientSyncPlayers(c)

\* a snapshot reaches client c
DeliveredTo(c) == \E arrive \in SUBSET Clients : c \in arrive /\ ServerNetworkSync(arrive)

\* client_sync_players has something to do: the guard of ClientSyncPlayers
CanSync(c) ==
    /\ connState[c] = "Connected"
    /\ ~panicked[c]
    /\ Pending(c) # <<>> \/ snapq[c] # <<>>

\* Every client keeps running its frames (weak fairness of
\* ClientSyncPlayers, written out with its guard), and the unreliable
\* channel does not lose every snapshot addressed to a client for ever.
DeliverySpec ==
    /\ Init /\ [][DeliveryNext]_vars
    /\ \A c \in Clients :
        /\ []<>~CanSync(c) \/ []<><<ClientSyncPlayers(c)>>_vars
        /\ WF_vars(DeliveredTo(c))

\* the translations and rotations an entity may have
Transforms == AnyTranslations \X AnyRotations \cup
    {<<w, IdentityRotation>> : w \in {<<494, 1000, 494>>}}

\* server entity e is alive with transform T, and client c, connected and
\* running, mirrors it in an entity it does not control
StableAt(c, e, T) ==
    /\ c \in Connections
    /\ ~panicked[c]
    /\ e \in DOMAIN world
    /\ <<world[e].translation, world[e].rotation>> = T
    /\ mapping[c][e] # None
    /\ clobby[c][c].client_entity # mapping[c][e]

\* client c's local copy of server entity e has transform T
MirrorAt(c, e, T) ==
    /\ mapping[c][e] \in DOMAIN cworld[c]
    /\ <<cworld[c][mapping[c][e]].translation, cworld[c][mapping[c][e]].rotation>> = T

\* C22: if from some time on a player or projectile stays alive with one
\* transform and stays mapped on a connected client that does not control
\* it, then the client's local copy has exactly that translation and
\* rotation again and again: it converges.
C22_MirrorConverges ==
    \A c \in Clients, e \in Entities, T \in Transforms :
        <>[]StableAt(c, e, T) => []<>MirrorAt(c, e, T)

\* a remote avatar that was moved and turned on the server has arrived with
\* both on the other client
C22_Witness ==
    \E c \in Clients, e \in Entities :
        /\ StableAt(c, e, <<CHOOSE p \in ReportedPositions : TRUE,
                            CHOOSE r \in ReportedRotations : TRUE>>)
        /\ MirrorAt(c, e, <<CHOOSE p \in ReportedPositions : TRUE,
                            CHOOSE r \in ReportedRotations : TRUE>>)


\* ------------------------------------------------ the client's controls
\* Transform::forward and Transform::right of a rotation (x, y, z, w)
Forward(q) ==
    <<-((2 * (q[1] * q[3] + q[4] * q[2])) \div 1000),
      -((2 * (q[2] * q[3] - q[4] * q[1])) \div 1000),
      -(1000 - (2 * (q[1] * q[1] + q[2] * q[2])) \div 1000)>>
Right(q) ==
    <<1000 - (2 * (q[2] * q[2] + q[3] * q[3])) \div 1000,
      (2 * (q[1] * q[2] + q[4] * q[3])) \div 1000,
      (2 * (q[1] * q[3] - q[4] * q[2])) \div 1000>>

\* PLAYER_MOVE_SPEED, units per second
PLAYER_MOVE_SPEED == 5

\* the rate limits of move_player and move_player_body, and of
\* handle_interaction, milliseconds
ReportInterval == 50
InteractInterval == 500

\* (as i8) of a key
Axis(pos, neg) == (IF pos THEN 1 ELSE 0) - (IF neg THEN 1 ELSE 0)

\* the movement of one frame of `delta` milliseconds with the keys of
\* `input` held and the avatar turned by `rotation`
MovementOf(input, rotation, delta) ==
    LET x == Axis(input.right, input.left)
        z == Axis(input.down, input.up)
        f == Forward(rotation)
        r == Right(rotation)
        forward_horizontal == NormalizeOrZero(<<f[1], 0, f[3]>>)
        right_horizontal == NormalizeOrZero(<<r[1], 0, r[3]>>)
        heading == NormalizeOrZero(VecAdd(VecScale(forward_horizontal, -z, 1),
                                          VecScale(right_horizontal, x, 1)))
    IN IF x # 0 \/ z # 0
       THEN VecScale(heading, PLAYER_MOVE_SPEED * delta, 1000)
       ELSE <<0, 0, 0>>

\* query.get_single_mut() of Query<_, With<ControlledPlayer>>: the one
\* controlled entity of client c, {} if there is none or more than one
ControlledPlayer(c) ==
    LET es == {e \in DOMAIN cworld[c] : cworld[c][e].controlled}
    IN IF Cardinality(es) = 1 THEN es ELSE {}

\* player_input: the keys are stored, and sent if the client is connected
player_input(c, keys) ==
    IF connState[c] = "Connected" THEN <<Movement(keys)>> ELSE <<>>

\* move_player with the rotation sent on every mouse motion
move_player_unlimited(c, now, turn_to) ==
    IF ControlledPlayer(c) = {} THEN [rotation |-> <<>>, sent |-> <<>>]
    ELSE LET e == CHOOSE e \in ControlledPlayer(c) : TRUE
         IN IF turn_to = cworld[c][e].rotation
            THEN [rotation |-> cworld[c][e].rotation, sent |-> <<>>]
            ELSE [rotation |-> turn_to,
                  sent |-> IF connState[c] = "Connected"
                           THEN <<Rotation(turn_to)>> ELSE <<>>]

\* move_player: a mouse motion turns the avatar to `turn_to`; the new
\* rotation is sent if the last one was sent more than 0.05 s ago
move_player(c, now, turn_to) ==
    IF ControlledPlayer(c) = {} THEN [rotation |-> <<>>, sent |-> <<>>]
    ELSE LET e == CHOOSE e \in ControlledPlayer(c) : TRUE
         IN IF turn_to = cworld[c][e].rotation
            THEN [rotation |-> cworld[c][e].rotation, sent |-> <<>>]
            ELSE [rotation |-> turn_to,
                  sent |-> IF now - lastSent[c].rotation > ReportInterval
                              /\ connState[c] = "Connected"
                           THEN <<Rotation(turn_to)>> ELSE <<>>]

\* move_player_body: with a movement key held the character controller is
\* given the movement of this frame, and the translation the avatar has
\* now is sent if the last one was sent more than 0.05 s ago
move_player_body(c, now, input, rotation, delta) ==
    IF ControlledPlayer(c) = {} THEN [movement |-> <<0, 0, 0>>, sent |-> <<>>]
    ELSE LET e == CHOOSE e \in ControlledPlayer(c) : TRUE
             movement == MovementOf(input, rotation, delta)
         IN IF Axis(input.right, input.left) # 0 \/ Axis(input.down, input.up) # 0
            THEN [movement |-> movement,
                  sent |-> IF now - lastSent[c].position > ReportInterval
                              /\ connState[c] = "Connected"
                           THEN <<Position(cworld[c][e].translation)>> ELSE <<>>]
            ELSE [movement |-> <<0, 0, 0>>, sent |-> <<>>]

\* handle_interaction with Interact sent in every frame the key is held
handle_interaction_unlimited(c, now, input) ==
    IF input.interact THEN <<Interact>> ELSE <<>>

\* handle_interaction: Interact is sent while the key is held, if the last
\* one was sent more than 0.5 s ago
handle_interaction(c, now, input) ==
    IF input.interact /\ now - lastSent[c].interact > InteractInterval
    THEN <<Interact>> ELSE <<>>

\* the view model of the item in hand: a child of the avatar, turned a
\* quarter of pi about y
ViewModelComponents(parent) ==
    [kind |-> "viewmodel", controlled |-> FALSE, translation |-> <<400, -300, -500>>,
     rotation |-> <<0, 383, 0, 924>>, parent |-> parent]

\* Equippable.interaction_distance, thousandths
InteractionDistance == 2000

\* equip_item_system without the check of the item in hand: a press picks
\* up whatever is in reach
equip_item_system_greedy(c, now, input, dist) ==
    LET eq == equipment[c]
        accepted == input.interact /\ now - lastSent[c].equip > InteractInterval
        inReach == {i \in Items : eq.items[i] # "Absent" /\ dist[i] <= InteractionDistance}
        idle == [equipment |-> eq, accepted |-> accepted, cmds |-> <<>>, sent |-> <<>>,
                 next |-> nextLocal[c]]
    IN IF ~accepted \/ Cardinality(ControlledPlayer(c)) # 1 \/ inReach = {} THEN idle
       ELSE LET closest == CHOOSE i \in inReach : \A j \in inReach : dist[i] <= dist[j]
                player_entity == CHOOSE e \in ControlledPlayer(c) : TRUE
                view_model_entity == nextLocal[c]
            IN [equipment |-> [equipped_item |-> view_model_entity,
                               items |-> [eq.items EXCEPT ![closest] = "Hidden"]],
                accepted |-> TRUE,
                cmds |-> <<CmdSpawn(view_model_entity, ViewModelComponents(player_entity))>>,
                sent |-> IF connState[c] = "Connected"
                         THEN <<EquipItemInput(closest)>> ELSE <<>>,
                next |-> view_model_entity + 1]

\* equip_item_system: an interact press more than 0.5 s after the last
\* accepted one drops the item in hand, or else picks up the closest
\* Equippable within its interaction distance; dist gives the distance of
\* every Equippable from the avatar
equip_item_system(c, now, input, dist) ==
    LET eq == equipment[c]
        accepted == input.interact /\ now - lastSent[c].equip > InteractInterval
        hidden == {i \in Items : eq.items[i] = "Hidden"}
        inReach == {i \in Items : eq.items[i] # "Absent" /\ dist[i] <= InteractionDistance}
        idle == [equipment |-> eq, accepted |-> accepted, cmds |-> <<>>, sent |-> <<>>,
                 next |-> nextLocal[c]]
    IN IF ~accepted \/ Cardinality(ControlledPlayer(c)) # 1 THEN idle
       ELSE IF eq.equipped_item # None
       THEN IF hidden = {}
            THEN [idle EXCEPT !.equipment.equipped_item = None,
                              !.cmds = <<CmdDespawn(eq.equipped_item)>>]
            ELSE LET entity == CHOOSE i \in hidden : TRUE
                 IN [idle EXCEPT
                        !.equipment = [equipped_item |-> None,
                                       items |-> [eq.items EXCEPT ![entity] = "Visible"]],
                        !.cmds = <<CmdDespawn(eq.equipped_item)>>,
                        !.sent = IF connState[c] = "Connected"
                                 THEN <<UnequipItemInput>> ELSE <<>>]
       ELSE IF inReach = {} THEN idle
       ELSE LET closest == CHOOSE i \in inReach : \A j \in inReach : dist[i] <= dist[j]
                player_entity == CHOOSE e \in ControlledPlayer(c) : TRUE
                view_model_entity == nextLocal[c]
            IN [equipment |-> [equipped_item |-> view_model_entity,
                               items |-> [eq.items EXCEPT ![closest] = "Hidden"]],
                accepted |-> TRUE,
                cmds |-> <<CmdSpawn(view_model_entity, ViewModelComponents(player_entity))>>,
                sent |-> IF connState[c] = "Connected"
                         THEN <<EquipItemInput(closest)>> ELSE <<>>,
                next |-> view_model_entity + 1]

\* tool_interaction_system, as far as Equippables go: a mining that
\* completes in this frame spawns the ore chunk
tool_interaction_system(items, mined) ==
    IF mined /\ items["OreChunk"] = "Absent"
    THEN [items EXCEPT !["OreChunk"] = "Inherited"] ELSE items

\* the log of send times after the messages of `msgs` were sent at `now`
Stamp(log, msgs, now) ==
    [k \in InputKinds |->
        IF \E i \in DOMAIN msgs : msgs[i].type = k
        THEN [at |-> now, prev |-> log[k].at]
        ELSE log[k]]

\* One frame of the client's Update schedule, `delta` milliseconds after
\* the last: player_input, move_player, move_player_body and
\* handle_interaction run in an order the schedule does not fix
\* (inputFirst: player_input runs before the systems that read PlayerInput;
\* turnFirst: move_player runs before move_player_body), then the physics
\* step moves the avatar by the movement handed to its controller.
\* equip_item_system and tool_interaction_system run in the same schedule:
\* dist is the distance of every Equippable from the avatar in this frame,
\* mined tells whether a mining completes in it.
ClientFrameAt(c, delta, keys, turn_to, inputFirst, turnFirst, dist, mined) ==
    LET now == timeElapsed[c] + delta
        seen == IF inputFirst THEN keys ELSE playerInput[c]
        a == player_input(c, keys)
        b == move_player(c, now, turn_to)
        rotation == IF b.rotation = <<>> THEN IdentityRotation
                    ELSE IF turnFirst THEN b.rotation
                    ELSE cworld[c][CHOOSE e \in ControlledPlayer(c) : TRUE].rotation
        d == move_player_body(c, now, seen, rotation, delta)
        h == handle_interaction(c, now, seen)
        q == equip_item_system(c, now, seen, dist)
        msgs == (IF inputFirst THEN a ELSE <<>>)
                    \o (IF turnFirst THEN b.sent \o d.sent ELSE d.sent \o b.sent)
                    \o h \o q.sent \o (IF inputFirst THEN <<>> ELSE a)
    IN /\ ~panicked[c]
       /\ now <= MaxElapsed
       /\ Len(inFlight[c]) + Len(msgs) <= MaxInFlight
       /\ timeElapsed' = [timeElapsed EXCEPT ![c] = now]
       /\ playerInput' = [playerInput EXCEPT ![c] = keys]
       /\ lastSent' = [lastSent EXCEPT
                ![c].rotation = IF b.sent # <<>> THEN now ELSE @,
                ![c].position = IF d.sent # <<>> THEN now ELSE @,
                ![c].interact = IF h # <<>> THEN now ELSE @,
                ![c].equip = IF q.accepted THEN now ELSE @]
       /\ equipment' = [equipment EXCEPT ![c] =
                [q.equipment EXCEPT !.items = tool_interaction_system(@, mined)]]
       /\ nextLocal' = [nextLocal EXCEPT ![c] = q.next]
       /\ inFlight' = [inFlight EXCEPT ![c] = @ \o msgs]
       /\ sentAt' = [sentAt EXCEPT ![c] = Stamp(@, msgs, now)]
       /\ cworld' = [cworld EXCEPT ![c] =
                ApplyCommands([e \in DOMAIN @ |->
                                 IF e \in ControlledPlayer(c)
                                 THEN [@[e] EXCEPT !.rotation = b.rotation,
                                                   !.translation = VecAdd(@, d.movement)]
                                 ELSE @[e]],
                              q.cmds)]
       /\ UNCHANGED <<connState, serverVars, sent, snapq, clobby, mapping,
                      panicked, relRead, ignored, overwrote, injected, timerVars>>

\* every Equippable out of reach of the avatar
OutOfReach == [i \in Items |-> 3000]

\* a frame of a client whose avatar stands away from every Equippable and
\* mines nothing
ClientFrame(c, delta, keys, turn_to, inputFirst, turnFirst) ==
    ClientFrameAt(c, delta, keys, turn_to, inputFirst, turnFirst, OutOfReach, FALSE)

\* the server receives the first n input messages of client c that are on
\* their way and ingests them in one tick
ServerReceivesInput(c, n) ==
    /\ n \in 1..Len(inFlight[c])
    /\ ServerTick(<<>>, c, <<>>, SubSeq(inFlight[c], 1, n))
    /\ inFlight' = [inFlight EXCEPT ![c] = SubSeq(@, n + 1, Len(@))]
    /\ UNCHANGED <<timeElapsed, playerInput, lastSent, equipment, sentAt>>

\* the input messages of client c on their way are lost
InputLost(c) ==
    /\ inFlight[c] # <<>>
    /\ inFlight' = [inFlight EXCEPT ![c] = <<>>]
    /\ UNCHANGED <<connState, serverVars, sent, snapq, clientVars, injected, timerVars,
                   timeElapsed, playerInput, lastSent, equipment, sentAt>>


\* ------------------------------------------------- server follows client
\* the keys a player may hold and the frame times of its client
WalkKeys == {DefaultInput, PlayerInput(TRUE, FALSE, FALSE, FALSE, FALSE)}
WalkDeltas == {40}

\* One player joins, gets its avatar, walks and turns; every input message
\* it sends reaches the server.
ControlNext ==
    \/ ServerUpdateSystem(<<ServerEvent("ClientConnected", Me)>>, Me, <<>>, <<>>)
    \/ ClientSyncPlayers(Me)
    \/ \E delta \in WalkDeltas, keys \in WalkKeys, turn_to \in AnyRotations,
          inputFirst \in BOOLEAN, turnFirst \in BOOLEAN :
            /\ timeElapsed[Me] + delta <= ShortRun
            /\ ClientFrame(Me, delta, keys, turn_to, inputFirst, turnFirst)
    \/ \E n \in 1..MaxInFlight : ServerReceivesInput(Me, n)

\* The server keeps receiving what is on its way to it and the client
\* keeps running client_sync_players (weak fairness, written out with its
\* guard for the second).  A frame with no key held and the mouse at rest
\* sends no report, so no fairness of frames is stated.
ControlSpec ==
    /\ Init /\ [][ControlNext]_vars
    /\ WF_vars(\E n \in 1..MaxInFlight : ServerReceivesInput(Me, n))
    /\ []<>~CanSync(Me) \/ []<><<ClientSyncPlayers(Me)>>_vars

\* client c has its avatar and the server has the player entity of c
HasAvatar(c) == ControlledPlayer(c) # {} /\ lobby[c] \in PlayersOf(world)

\* the avatar of client c is moved or turned by a frame
AvatarMoves(c) ==
    \E e \in ControlledPlayer(c) :
        \/ cworld'[c][e].translation # cworld[c][e].translation
        \/ cworld'[c][e].rotation # cworld[c][e].rotation

\* the server's transform of the player of c is the one its avatar has on c
ServerAgrees(c) ==
    /\ HasAvatar(c)
    /\ \A e \in ControlledPlayer(c) :
        /\ world[lobby[c]].translation = cworld[c][e].translation
        /\ world[lobby[c]].rotation = cworld[c][e].rotation

\* C23: once a player with an avatar has stopped moving and turning, the
\* server's translation and rotation of its player equal those of the
\* avatar on the controlling client, at the latest when all that the
\* client has sent has arrived.
C23_ServerFollowsClient ==
    \/ []<>~HasAvatar(Me)
    \/ []<><<AvatarMoves(Me)>>_vars
    \/ []<>ServerAgrees(Me)


\* ------------------------------------------------------ decode failures
\* what a peer may send: the client's own player, a projectile, and bytes
\* that do not decode
DecodeMessages ==
    {PlayerCreate(Me, 1, SpawnTranslation), SpawnProjectile(2, SpawnTranslation),
     DespawnProjectile(2), Undecodable}

DecodeNext ==
    \/ PeerConnects(Me)
    \/ \E m \in DecodeMessages : PeerSends(Me, m)
    \/ \E ne \in AnySnapshots : PeerSendsSnapshot(Me, ne)
    \/ ClientSyncPlayers(Me)

DecodeSpec == Init /\ [][DecodeNext]_vars

\* the messages of msgs that decode
Decodable(msgs) == SelectSeq(msgs, LAMBDA m : m # Undecodable)

\* C24: a run of client_sync_players over reliable messages of which some
\* do not decode is not interrupted: it ends as the run over the messages
\* that do decode ends, those queued after the bad one included.
C24_DecodeFailureIsLocal ==
    [][\A c \in Clients :
        LET msgs == [i \in DOMAIN Pending(c) |-> Pending(c)[i].msg]
            rest == Applied(c, Decodable(msgs))
        IN (relRead'[c] # relRead[c] \/ panicked'[c] # panicked[c]) /\ snapq[c] = <<>>
             /\ ~rest.panic /\ ~CommandsPanic(cworld[c], rest.cmds) =>
                /\ ~panicked'[c]
                /\ mapping'[c] = rest.mapping
                /\ clobby'[c] = rest.lobby
                /\ cworld'[c] = ApplyCommands(cworld[c], rest.cmds)]_vars


\* ----------------------------------------------------- end of a session
\* an event that reports none
PanicOnErrorSystemIgnores(errors) == FALSE

\* panic_on_error_system: any transport error event is fatal
PanicOnErrorSystem(errors) == errors # {}

\* The connection of client c ends.  The transport's update in PreUpdate
\* reports it as an error event; panic_on_error_system reads the event in
\* Update of the same frame, while client_sync_players no longer runs.
ConnectionEnds(c) ==
    /\ connState[c] = "Connected"
    /\ ~panicked[c]
    /\ connState' = [connState EXCEPT ![c] = "Disconnected"]
    /\ panicked' = [panicked EXCEPT ![c] = PanicOnErrorSystem({"Disconnected"})]
    /\ UNCHANGED <<serverVars, sent, snapq, clobby, mapping, cworld, nextLocal, relRead,
                   ignored, overwrote, injected, timerVars, controlVars>>

\* The client process alone, its peer sending any message, until the
\* connection ends.
SessionNext ==
    \/ PeerConnects(Me)
    \/ \E m \in AnyServerMessages : PeerSends(Me, m)
    \/ ClientSyncPlayers(Me)
    \/ ConnectionEnds(Me)

SessionSpec == Init /\ [][SessionNext]_vars

\* the entries of the NetworkMapping of client c, a resource that lives
\* and dies with the process
LiveEntries(c) == IF panicked[c] THEN {} ELSE Tracked(c)

RateDeltas == {20, 40}
\* milliseconds of a run in which the send times are watched
RateRun == 140

\* The client process alone: it connects, receives its own player, and
\* runs its frames; what a frame sends leaves for the network before the
\* next frame.
RateNext ==
    \/ PeerConnects(Me)
    \/ PeerSends(Me, PlayerCreate(Me, 1, SpawnTranslation))
    \/ ClientSyncPlayers(Me)
    \/ \E delta \in RateDeltas, keys \in WalkKeys, turn_to \in AnyRotations,
          inputFirst \in BOOLEAN, turnFirst \in BOOLEAN :
            /\ timeElapsed[Me] + delta <= RateRun
            /\ inFlight[Me] = <<>>
            /\ ClientFrame(Me, delta, keys, turn_to, inputFirst, turnFirst)
    \/ InputLost(Me)

RateSpec == Init /\ [][RateNext]_vars

\* C26: any two consecutive Movement messages of a client are at least
\* 0.05 s apart.
C26_MovementRateLimited ==
    \A c \in Clients :
        sentAt[c]["Movement"].prev >= 0 =>
            sentAt[c]["Movement"].at - sentAt[c]["Movement"].prev >= ReportInterval


\* C27: any two consecutive Rotation reports of a client are more than
\* 0.05 s apart, and so are any two consecutive Position reports.
C27_ReportsRateLimited ==
    \A c \in Clients : \A k \in {"Rotation", "Position"} :
        sentAt[c][k].prev >= 0 =>
            sentAt[c][k].at - sentAt[c][k].prev > ReportInterval

\* a client has sent two Rotation and two Position reports
C27_Witness ==
    /\ sentAt[Me]["Rotation"].prev >= 0
    /\ sentAt[Me]["Position"].prev >= 0


\* ------------------------------------------------------------- interact
\* the interact key held or released, in frames slower than the reports
InteractKeys == {DefaultInput, PlayerInput(FALSE, FALSE, FALSE, FALSE, TRUE)}
InteractDeltas == {300, 400}

\* The client process alone over more than a second, the interact key held
\* or released at will.
InteractNext ==
    \/ PeerConnects(Me)
    \/ PeerSends(Me, PlayerCreate(Me, 1, SpawnTranslation))
    \/ ClientSyncPlayers(Me)
    \/ \E delta \in InteractDeltas, keys \in InteractKeys, turn_to \in AnyRotations,
          inputFirst \in BOOLEAN, turnFirst \in BOOLEAN :
            /\ inFlight[Me] = <<>>
            /\ ClientFrame(Me, delta, keys, turn_to, inputFirst, turnFirst)
    \/ InputLost(Me)

InteractSpec == Init /\ [][InteractNext]_vars

\* C28: any two consecutive Interact messages of a client are more than
\* 0.5 s apart.
C28_InteractRateLimited ==
    \A c \in Clients :
        sentAt[c]["Interact"].prev >= 0 =>
            sentAt[c]["Interact"].at - sentAt[c]["Interact"].prev > InteractInterval

\* a client has sent two Interact messages
C28_Witness == sentAt[Me]["Interact"].prev >= 0


\* ------------------------------------------------- attacks are not lost
\* the SpawnProjectile messages on a stream
SpawnCount(s) ==
    Cardinality({k \in DOMAIN s : s[k].msg.type = "SpawnProjectile"})

\* C29: every BasicAttack the server receives from a connected player in
\* a tick adds one projectile to the world and one SpawnProjectile to the
\* stream of every connection, also in the tick in which the sender
\* connected.
C29_EveryAttackSpawns ==
    [][\A events \in SeqsUpTo(ServerEvents, MaxEvents), from \in Clients,
         commands \in SeqsUpTo(CastPoints, MaxCommands) :
        ServerUpdateSystem(events, from, commands, <<>>) =>
            /\ Cardinality(ProjectilesOf(world')) =
                    Cardinality(ProjectilesOf(world)) + Len(commands)
            /\ \A c \in Clients :
                    connState'[c] = "Connected" =>
                        SpawnCount(sent'[c]) = SpawnCount(sent[c]) + Len(commands)]_vars


\* ------------------------------------------------------------ duplicates
\* the server's lobby, world and streams as they are now
ServerNow == [lobby |-> lobby, world |-> world, next |-> nextEntity, sent |-> sent]

\* what a tick makes of `st` that receives `commands` and `inputs` from
\* client `from` and no event
AfterMessages(st, from, commands, inputs) ==
    LET conns == Connections
        commandq == [c \in Clients |-> IF c = from THEN commands ELSE <<>>]
        inputq == [c \in Clients |-> IF c = from THEN inputs ELSE <<>>]
        acc0 == [lobby |-> st.lobby, cmds |-> <<>>, sent |-> st.sent, next |-> st.next,
                 join |-> joinInfo, leave |-> leaveInfo]
        acc2 == ReceiveFromClients(acc0, SetToSeq(conns), commandq, inputq, st.world, conns)
    IN [lobby |-> acc2.lobby, world |-> ApplyCommands(st.world, acc2.cmds),
        next |-> acc2.next, sent |-> acc2.sent]

\* the input messages of every kind
InputMessages ==
    {Movement(i) : i \in MovementInputs} \cup TransformReports \cup {Interact}

\* C30: a command or input message of a connected client that arrives
\* twice, in one tick or in two ticks one after the other, leaves the
\* server's lobby, world and streams as the message arriving once does.
C30_DuplicatesIdempotent ==
    \A from \in Connections :
        /\ \A m \in InputMessages :
            LET once == AfterMessages(ServerNow, from, <<>>, <<m>>)
            IN /\ AfterMessages(ServerNow, from, <<>>, <<m, m>>) = once
               /\ AfterMessages(once, from, <<>>, <<m>>) = once
        /\ \A cast_at \in AttackCastPoints :
            LET once == AfterMessages(ServerNow, from, <<cast_at>>, <<>>)
            IN /\ AfterMessages(ServerNow, from, <<cast_at, cast_at>>, <<>>) = once
               /\ AfterMessages(once, from, <<cast_at>>, <<>>) = once


\* --------------------------------------------------- reordered snapshots
\* a batch arrives on ServerChannel::NetworkedEntities, which is
\* unreliable: batches arrive in any order, several between two frames
PeerSendsReordered(c, ne) ==
    /\ connState[c] = "Connected"
    /\ injected < MaxInject
    /\ Len(snapq[c]) < MaxReordered
    /\ injected' = injected + 1
    /\ snapq' = [snapq EXCEPT ![c] = Append(@, ne)]
    /\ UNCHANGED <<connState, serverVars, sent, clientVars, timerVars, controlVars>>

\* The client process alone, its peer sending any message and its
\* snapshots arriving in any order.
ReorderNext ==
    \/ PeerConnects(Me)
    \/ \E m \in AnyServerMessages : PeerSends(Me, m)
    \/ \E ne \in AnySnapshots : PeerSendsReordered(Me, ne)
    \/ ClientSyncPlayers(Me)

ReorderSpec == Init /\ [][ReorderNext]_vars

RECURSIVE LastGiven(_, _)
\* the transform the last of the snapshots that names server entity e
\* gives it, <<>> if none names it
LastGiven(snaps, e) ==
    IF snaps = <<>> THEN <<>>
    ELSE LET ne == snaps[Len(snaps)]
         IN IF e \in {ne.entities[i] : i \in DOMAIN ne.entities}
            THEN GivenBy(ne, e)
            ELSE LastGiven(SubSeq(snaps, 1, Len(snaps) - 1), e)

\* C31: after a run of client_sync_players that applied snapshots, every
\* mirror the client tracks, the avatar it controls excepted, has the
\* translation and rotation that the last snapshot of the run naming its
\* server entity gives it, whatever the order the snapshots arrived in.
C31_LastSnapshotWins ==
    [][\A c \in Clients :
        (ClientSyncPlayers(c) /\ ~panicked'[c]) =>
            \A e \in Tracked(c)' :
                LET local == mapping'[c][e]
                    given == LastGiven(snapq[c], e)
                IN (local \in DOMAIN cworld'[c] /\ ~cworld'[c][local].controlled
                        /\ given # <<>>) =>
                    /\ cworld'[c][local].translation = given[1]
                    /\ cworld'[c][local].rotation = given[2]]_vars

\* a run applied two snapshots that gave a tracked mirror two different
\* transforms, and the mirror is alive
C31_Witness ==
    /\ overwrote[Me]
    /\ ~panicked[Me]
    /\ \E e \in Tracked(Me) :
            /\ mapping[Me][e] \in DOMAIN cworld[Me]
            /\ ~cworld[Me][mapping[Me][e]].controlled
            /\ cworld[Me][mapping[Me][e]].rotation # IdentityRotation


EquipMessages ==
    {EquipItem(id, e) : id \in Clients, e \in Entities}
        \cup {UnequipItem(id) : id \in Clients}

IsEquipMessage(m) == m.type \in {"EquipItem", "UnequipItem"}

\* The client process alone; its peer creates and removes players and
\* projectiles and tells who equips and unequips what.
EquipNext ==
    \/ PeerConnects(Me)
    \/ \E m \in AnyServerMessages \cup EquipMessages : PeerSends(Me, m)
    \/ ClientSyncPlayers(Me)

EquipSpec == Init /\ [][EquipNext]_vars

\* the local representations of players a client holds
PlayerMirrors(c) == {e \in DOMAIN cworld[c] : cworld[c][e].kind \in {"avatar", "remote"}}

\* C34: a run of client_sync_players that applies only EquipItem and
\* UnequipItem events leaves the mapping and the lobby as they were and
\* every player's local representation alive with the transform it had;
\* if every one of the events names the client's own id, the run changes
\* nothing at all.
C34_EquipIsCosmetic ==
    /\ [][\A c \in Clients :
            (/\ ClientSyncPlayers(c)
             /\ ~panicked'[c]
             /\ snapq[c] = <<>>
             /\ \A i \in DOMAIN Pending(c) : IsEquipMessage(Pending(c)[i].msg))
                => /\ mapping'[c] = mapping[c]
                   /\ clobby'[c] = clobby[c]
                   /\ \A e \in PlayerMirrors(c) :
                        /\ e \in DOMAIN cworld'[c]
                        /\ cworld'[c][e].translation = cworld[c][e].translation
                        /\ cworld'[c][e].rotation = cworld[c][e].rotation
                   /\ (\A i \in DOMAIN Pending(c) : Pending(c)[i].msg.player_id = c)
                        => (cworld'[c] = cworld[c] /\ nextLocal'[c] = nextLocal[c])]_vars
    /\ [](\A c \in Clients : \A m \in EquipMessages :
            m.player_id = c => Applied(c, <<m>>) = RunState(c))

\* a client shows a remote player holding an item: the mirror is alive and
\* has a view model for a child
C34_Witness ==
    \E e \in DOMAIN cworld[Me] :
        /\ cworld[Me][e].kind = "remote"
        /\ EquippedChildren(cworld[Me], e) # {}
        /\ relRead[Me] = Len(sent[Me])
        /\ ~panicked[Me]


\* ------------------------------------------------- one controlled avatar
\* the local entities of client c that carry ControlledPlayer
Controlled(c) == {e \in DOMAIN cworld[c] : cworld[c][e].controlled}

\* C35: a client that receives what the server sends never holds more than
\* one entity marked ControlledPlayer.
C35_OneControlledAvatar ==
    \A c \in Clients : Cardinality(Controlled(c)) <= 1

\* a client holds its controlled avatar and the mirror of another player
C35_Witness ==
    \E c \in Connections :
        /\ Cardinality(Controlled(c)) = 1
        /\ \E e \in DOMAIN cworld[c] : cworld[c][e].kind = "remote"
        /\ ~panicked[c]


\* --------------------------------------------- lobby and mapping agree
\* C36: every entry id -> {server_entity, client_entity} of a client's
\* lobby is in the client's mapping, mapping[server_entity] =
\* client_entity, and no two player ids of a lobby have the same server
\* entity.
C36_LobbyAgreesWithMapping ==
    \A c \in Clients :
        /\ \A id \in LobbyIds(c) :
                mapping[c][clobby[c][id].server_entity] = clobby[c][id].client_entity
        /\ \A id1, id2 \in LobbyIds(c) :
                clobby[c][id1].server_entity = clobby[c][id2].server_entity => id1 = id2

\* a client holds two players in its lobby
C36_Witness ==
    \E c \in Connections : Cardinality(LobbyIds(c)) = 2 /\ ~panicked[c]


\* ------------------------------------------------ at most one creation
\* the positions of the stream s that hold a PlayerCreate
Creates(s) == {i \in DOMAIN s : s[i].msg.type = "PlayerCreate"}

\* between positions i and j of the stream s there is a PlayerRemove of id
RemovedBetween(s, i, j, id) ==
    \E k \in DOMAIN s : i < k /\ k < j /\ s[k].msg = PlayerRemove(id)

RECURSIVE RegistersTracked(_, _, _, _, _)
\* the client applies msgs in order, starting from st: one of them registers
\* a server entity that is in the mapping, or a player id that is in the
\* lobby, at the time the message is applied
RegistersTracked(st, w, first, me, msgs) ==
    IF msgs = <<>> \/ st.panic THEN FALSE
    ELSE LET m == Head(msgs)
         IN \/ m.type \in {"PlayerCreate", "SpawnProjectile"}
                    /\ st.mapping[m.entity] # None
            \/ m.type = "PlayerCreate" /\ st.lobby[m.id] # NoInfo
            \/ RegistersTracked(OnServerMessage(st, w, first, me, m), w, first, me,
                                Tail(msgs))

C38_SpawnBeforeDespawn ==
    \A c \in Clients : \A e \in Entities :
        LET despawns == Positions(c, DespawnProjectile(e))
            spawns == {i \in DOMAIN sent[c] :
                          /\ sent[c][i].msg.type = "SpawnProjectile"
                          /\ sent[c][i].msg.entity = e}
        IN /\ \A i \in despawns, j \in spawns : j < i
           /\ Cardinality(despawns) <= 1
           /\ (/\ spawns # {}
               /\ \E i \in despawns : i <= relRead[c]
               /\ ~panicked[c]) => mapping[c][e] = None

\* a client has applied the spawn and then the despawn of a projectile
C38_Witness ==
    \E c \in Connections : \E e \in Entities :
        /\ \E j \in DOMAIN sent[c] :
                /\ sent[c][j].msg.type = "SpawnProjectile"
                /\ sent[c][j].msg.entity = e
        /\ Positions(c, DespawnProjectile(e)) # {}
        /\ relRead[c] = Len(sent[c])
        /\ mapping[c][e] = None
        /\ ~panicked[c]


\* ------------------------------------------------------------ equipment
\* how far an Equippable can be from the avatar in a frame: within the
\* interaction distance, at it, beyond it
ItemDistances == {1000, InteractionDistance, 3000}

\* The client process alone over more than a second: the interact key held
\* or released at will, the avatar anywhere relative to the Equippables,
\* minings completing at will. The server has no arm for the equip
\* requests, so they leave the queue unread.
EquipmentNext ==
    \/ PeerConnects(Me)
    \/ PeerSends(Me, PlayerCreate(Me, 1, SpawnTranslation))
    \/ ClientSyncPlayers(Me)
    \/ \E delta \in InteractDeltas, keys \in InteractKeys,
          dist \in [Items -> ItemDistances], mined \in BOOLEAN :
            /\ inFlight[Me] = <<>>
            /\ ClientFrameAt(Me, delta, keys, IdentityRotation, TRUE, TRUE, dist, mined)
    \/ InputLost(Me)

EquipmentSpec == Init /\ [][EquipmentNext]_vars

\* the view models in a client's world
ViewModels(c) == {e \in DOMAIN cworld[c] : cworld[c][e].kind = "viewmodel"}

\* the equip requests a step adds to a client's outgoing queue
Requested(c, type) ==
    \E k \in DOMAIN inFlight'[c] : k > Len(inFlight[c]) /\ inFlight'[c][k].type = type

\* C39: a client holds at most one item: the item in hand is the one view
\* model of its world and the one hidden Equippable. The equipment changes
\* only at an interact press accepted more than 0.5 s after the last
\* accepted one, and then between nothing and one item; an accepted press
\* of a client with an item in hand drops it. An EquipItem request is sent
\* only in a step from nothing to an item in hand, an UnequipItem request
\* only in a step from an item in hand to nothing.
C39_EquipmentToggles ==
    /\ [](\A c \in Clients :
            LET eq == equipment[c]
            IN /\ Cardinality(ViewModels(c)) <= 1
               /\ eq.equipped_item = None <=> ViewModels(c) = {}
               /\ eq.equipped_item # None => ViewModels(c) = {eq.equipped_item}
               /\ Cardinality({i \in Items : eq.items[i] = "Hidden"})
                    = Cardinality(ViewModels(c)))
    /\ [][\A c \in Clients :
            LET was == equipment[c].equipped_item
                is == equipment'[c].equipped_item
                accepted == lastSent'[c].equip # lastSent[c].equip
            IN /\ accepted =>
                    /\ playerInput'[c].interact
                    /\ timeElapsed'[c] - lastSent[c].equip > InteractInterval
                    /\ lastSent'[c].equip = timeElapsed'[c]
               /\ is # was => accepted /\ (was = None \/ is = None)
               /\ accepted /\ was # None /\ Cardinality(ControlledPlayer(c)) = 1
                    => is = None
               /\ Requested(c, "EquipItemInput") => was = None /\ is # None
               /\ Requested(c, "UnequipItemInput") => was # None /\ is = None]_vars

\* a connected client picked the pickaxe up and later dropped it again
C39_Witness ==
    /\ connState[Me] = "Connected"
    /\ equipment[Me].equipped_item = None
    /\ equipment[Me].items["Pickaxe"] = "Visible"
    /\ ViewModels(Me) = {}
====
